---- MODULE Spec2Model ----
(***************************************************************************)
(* TidySQL: the edit applicator (tidysql-syntax), the lint dispatcher and  *)
(* its rules (tidysql-lints) and the check / fix pipeline (tidysql).       *)
(*                                                                         *)
(* Text is a sequence of bytes (integers 0..255), as a Rust &str is.       *)
(* Offsets are 0-based byte offsets; a range is the half-open [start,end). *)
(***************************************************************************)
EXTENDS Integers, Sequences, FiniteSets, TLC

VARIABLES
    pc,        \* which step of the driver has run
    text,      \* apply_edits: the input text
    edits,     \* apply_edits: the caller's edit list, in the caller's order
    result,    \* apply_edits: what the call returned
    iter,      \* iterated single-edit application: running result and edits left
    doc,       \* pipeline: the SQL source handed to check / fix
    conf,      \* pipeline: the configuration (dialect, rule levels and options)
    build,     \* pipeline: the dialects the parser library was built with
    checked,   \* pipeline: what check_with_config returned (its diagnostics), with
               \* the parse outcome it saw and the rule checks it invoked
    fixed,     \* pipeline: what fix_with_config returned for source
    refixed,   \* pipeline: what fix_with_config returned for the fixed text
    rechecked, \* pipeline: what check_with_config returned for the fixed text
    sink,      \* tree builder: the TreeBuilder that is receiving parser events
    fed,       \* tree builder: how many events the builder has received
    built,     \* tree builder: the tree that finish() returned
    asked      \* tree reading: the query made of the finished tree, and its answer;
               \* language server: the Backend's document store, its
               \* notification handlers and what it has published

edit_vars == <<text, edits, result, iter>>
pipeline_vars == <<doc, conf, build, checked, fixed, refixed, rechecked>>
builder_vars == <<sink, fed, built, asked>>
vars == <<pc, text, edits, result, iter, doc, conf, build, checked, fixed, refixed,
          rechecked, sink, fed, built, asked>>

(***************************************************************************)
(* Bounds: of the edit-applicator model, and the number of SELECTs that a  *)
(* source of the pipeline model chains with set operators.                 *)
(***************************************************************************)
MaxTextLen == 2
MaxEdits == 2
MaxSelects == 2
MaxEvents == 6
MaxKeywordLen == 3

(***************************************************************************)
(* Sequence helpers.                                                       *)
(***************************************************************************)
Range(s) == {s[i] : i \in DOMAIN s}

\* text[from..to] of Rust, on 0-based byte offsets, from <= to <= len
Slice(s, from, to) == SubSeq(s, from + 1, to)

(***************************************************************************)
(* str::is_char_boundary: offset 0 and offset len are boundaries, an       *)
(* offset past len is not, and an inner offset is a boundary unless the    *)
(* byte there is a UTF-8 continuation byte (0x80..0xBF).                   *)
(***************************************************************************)
is_char_boundary(t, index) ==
    IF index = 0 THEN TRUE
    ELSE IF index >= Len(t) THEN index = Len(t)
    ELSE t[index + 1] < 128 \/ t[index + 1] >= 192

(***************************************************************************)
(* Results: Ok(String) or Err(EditError).                                  *)
(***************************************************************************)
Ok(s) == [ok |-> TRUE, val |-> s, err |-> "None"]
Err(e) == [ok |-> FALSE, val |-> <<>>, err |-> e]

\* TextEdit { range, replacement }; TextRange::new guarantees start <= end
TextEdit(s, e, r) == [start |-> s, end |-> e, replacement |-> r]

(***************************************************************************)
(* edits.sort_by_key(|edit| edit.range.start()): a stable sort, so edits   *)
(* with equal start keep the caller's order.  The sorted list is built by  *)
(* inserting each edit after every edit whose start is <= its own.         *)
(***************************************************************************)
(***************************************************************************)
(* A sort that is not stable: an edit is inserted before the edits of      *)
(* equal start, so equal starts come out in reverse of the caller's order. *)
(***************************************************************************)
RECURSIVE InsertByStart_unstable(_, _)
InsertByStart_unstable(sorted, e) ==
    IF sorted = <<>> THEN <<e>>
    ELSE IF Head(sorted).start < e.start
         THEN <<Head(sorted)>> \o InsertByStart_unstable(Tail(sorted), e)
         ELSE <<e>> \o sorted

RECURSIVE InsertByStart(_, _)
InsertByStart(sorted, e) ==
    IF sorted = <<>> THEN <<e>>
    ELSE IF Head(sorted).start <= e.start
         THEN <<Head(sorted)>> \o InsertByStart(Tail(sorted), e)
         ELSE <<e>> \o sorted

\* the sort left out: the edits are walked in the caller's order
sort_by_start_missing(es) == es

RECURSIVE sort_by_start(_)
sort_by_start(es) ==
    IF es = <<>> THEN <<>>
    ELSE InsertByStart(sort_by_start(SubSeq(es, 1, Len(es) - 1)), es[Len(es)])

(***************************************************************************)
(* The loop with the overlap check left out, and the loop with the bounds  *)
(* check made before the overlap check.                                    *)
(***************************************************************************)
RECURSIVE apply_loop_no_overlap_check(_, _, _, _, _)
apply_loop_no_overlap_check(t, es, i, cursor, out) ==
    IF i > Len(es) THEN Ok(out \o Slice(t, cursor, Len(t)))
    ELSE LET edit == es[i] IN
         IF edit.end > Len(t) THEN Err("OutOfBounds")
         ELSE IF ~is_char_boundary(t, edit.start) \/ ~is_char_boundary(t, edit.end)
              THEN Err("InvalidBoundary")
         ELSE apply_loop_no_overlap_check(t, es, i + 1, edit.end,
                         out \o Slice(t, cursor, edit.start) \o edit.replacement)

RECURSIVE apply_loop_bounds_first(_, _, _, _, _)
apply_loop_bounds_first(t, es, i, cursor, out) ==
    IF i > Len(es) THEN Ok(out \o Slice(t, cursor, Len(t)))
    ELSE LET edit == es[i] IN
         IF edit.end > Len(t) THEN Err("OutOfBounds")
         ELSE IF edit.start < cursor THEN Err("Overlap")
         ELSE IF ~is_char_boundary(t, edit.start) \/ ~is_char_boundary(t, edit.end)
              THEN Err("InvalidBoundary")
         ELSE apply_loop_bounds_first(t, es, i + 1, edit.end,
                         out \o Slice(t, cursor, edit.start) \o edit.replacement)

(***************************************************************************)
(* The loop of apply_edits over the sorted edits: i is the next edit,      *)
(* cursor the end of the last applied edit, out the string built so far.   *)
(***************************************************************************)
RECURSIVE apply_loop(_, _, _, _, _)
apply_loop(t, es, i, cursor, out) ==
    IF i > Len(es) THEN Ok(out \o Slice(t, cursor, Len(t)))
    ELSE LET edit == es[i] IN
         IF edit.start < cursor THEN Err("Overlap")
         ELSE IF edit.end > Len(t) THEN Err("OutOfBounds")
         ELSE IF ~is_char_boundary(t, edit.start) \/ ~is_char_boundary(t, edit.end)
              THEN Err("InvalidBoundary")
         ELSE apply_loop(t, es, i + 1, edit.end,
                         out \o Slice(t, cursor, edit.start) \o edit.replacement)

apply_edits(t, es) ==
    IF es = <<>> THEN Ok(t)
    ELSE apply_loop(t, sort_by_start(es), 1, 0, <<>>)

(***************************************************************************)
(* Inputs of the edit applicator: valid UTF-8 texts over 'a' (0x61) and    *)
(* the two-byte code point U+00E9 (0xC3 0xA9); edit ranges over offsets    *)
(* 0..MaxTextLen, which lie past the end of the shorter texts;             *)
(* replacements "", "X" and "Y".                                           *)
(***************************************************************************)
RECURSIVE ValidUtf8(_)
ValidUtf8(s) ==
    IF s = <<>> THEN TRUE
    ELSE IF s[1] = 97 THEN ValidUtf8(Tail(s))
    ELSE /\ Len(s) >= 2
         /\ s[1] = 195
         /\ s[2] = 169
         /\ ValidUtf8(Tail(Tail(s)))

Texts ==
    {s \in UNION {[1..n -> {97, 195, 169}] : n \in 0..MaxTextLen} : ValidUtf8(s)}

Replacements == {<<>>, <<88>>, <<89>>}

Edits ==
    {TextEdit(p[1], p[2], r) :
        p \in {q \in (0..MaxTextLen) \X (0..MaxTextLen) : q[1] <= q[2]},
        r \in Replacements}

EditLists == UNION {[1..n -> Edits] : n \in 0..MaxEdits}

(***************************************************************************)
(* Iterated single-edit application: the edits are taken one at a time,    *)
(* highest start first (of equal starts the later listed first), each as   *)
(* its own apply_edits call on the running text.                           *)
(***************************************************************************)
NextIndex(es) ==
    CHOOSE k \in DOMAIN es :
        \A j \in DOMAIN es :
            \/ es[j].start < es[k].start
            \/ es[j].start = es[k].start /\ j <= k

RemoveAt(es, k) == SubSeq(es, 1, k - 1) \o SubSeq(es, k + 1, Len(es))

RECURSIVE iterate_single(_, _)
iterate_single(res, es) ==
    IF es = <<>> \/ ~res.ok THEN res
    ELSE LET k == NextIndex(es) IN
         iterate_single(apply_edits(res.val, <<es[k]>>), RemoveAt(es, k))

(***************************************************************************)
(* The edit-applicator driver: a text and an edit list are chosen, then    *)
(* apply_edits is called on them, then the same edits are applied one at   *)
(* a time.                                                                 *)
(***************************************************************************)
NoResult == [ok |-> FALSE, val |-> <<>>, err |-> "NotCalled"]

NoConfig == [core |-> [dialect |-> "Ansi"]]
NotChecked == [parse |-> NoResult, diagnostics |-> <<>>, calls |-> <<>>]

PipelineIdle ==
    /\ doc = <<>>
    /\ conf = NoConfig
    /\ build = {}
    /\ checked = NotChecked
    /\ fixed = NoResult
    /\ refixed = NoResult
    /\ rechecked = NotChecked

NoSink == [panic |-> "none"]
NoTree == [text |-> <<>>, tokens |-> <<>>, nodes |-> <<>>, node_children |-> <<>>,
           panic |-> "none"]
NotAsked == [query |-> "none"]

BuilderIdle ==
    /\ sink = NoSink
    /\ fed = 0
    /\ built = NoTree
    /\ asked = NotAsked

InitEdits ==
    /\ pc = "input"
    /\ text \in Texts
    /\ edits \in EditLists
    /\ result = NoResult
    /\ iter = NoResult
    /\ PipelineIdle
    /\ BuilderIdle

CallApplyEdits ==
    /\ pc = "input"
    /\ result' = apply_edits(text, edits)
    /\ pc' = "applied"
    /\ UNCHANGED <<text, edits, iter>>
    /\ UNCHANGED pipeline_vars
    /\ UNCHANGED builder_vars

CallIterated ==
    /\ pc = "applied"
    /\ iter' = iterate_single(Ok(text), edits)
    /\ pc' = "iterated"
    /\ UNCHANGED <<text, edits, result>>
    /\ UNCHANGED pipeline_vars
    /\ UNCHANGED builder_vars

NextEdits == CallApplyEdits \/ CallIterated

SpecEdits == InitEdits /\ [][NextEdits]_vars

(***************************************************************************)
(* ASCII helpers of the lint rules: u8::is_ascii_uppercase / lowercase,    *)
(* to_ascii_uppercase / lowercase, str::eq_ignore_ascii_case and           *)
(* str::contains.                                                          *)
(***************************************************************************)
is_ascii_uppercase(c) == c >= 65 /\ c <= 90
is_ascii_lowercase(c) == c >= 97 /\ c <= 122
byte_to_upper(c) == IF is_ascii_lowercase(c) THEN c - 32 ELSE c
byte_to_lower(c) == IF is_ascii_uppercase(c) THEN c + 32 ELSE c
to_ascii_uppercase(t) == [i \in 1..Len(t) |-> byte_to_upper(t[i])]
to_ascii_lowercase(t) == [i \in 1..Len(t) |-> byte_to_lower(t[i])]
eq_ignore_ascii_case(x, y) ==
    /\ Len(x) = Len(y)
    /\ \A i \in 1..Len(x) : byte_to_lower(x[i]) = byte_to_lower(y[i])
contains(hay, needle) ==
    \E i \in 0..(Len(hay) - Len(needle)) : Slice(hay, i, i + Len(needle)) = needle

(***************************************************************************)
(* Byte strings used below.                                                *)
(***************************************************************************)
w_select == <<115, 101, 108, 101, 99, 116>>   \* `select`
w_SELECT == <<83, 69, 76, 69, 67, 84>>   \* `SELECT`
w_Select == <<83, 101, 108, 101, 99, 116>>   \* `Select`
w_union == <<117, 110, 105, 111, 110>>   \* `union`
w_UNION == <<85, 78, 73, 79, 78>>   \* `UNION`
w_Union == <<85, 110, 105, 111, 110>>   \* `Union`
w_all == <<97, 108, 108>>   \* `all`
w_ALL == <<65, 76, 76>>   \* `ALL`
w_DISTINCT == <<68, 73, 83, 84, 73, 78, 67, 84>>   \* `DISTINCT`
w_intersect == <<105, 110, 116, 101, 114, 115, 101, 99, 116>>   \* `intersect`
w_INTERSECT == <<73, 78, 84, 69, 82, 83, 69, 67, 84>>   \* `INTERSECT`
w_from == <<102, 114, 111, 109>>   \* `from`
w_FROM == <<70, 82, 79, 77>>   \* `FROM`
w_t == <<116>>   \* `t`
w_1 == <<49>>   \* `1`
w_2 == <<50>>   \* `2`
w_distinct == <<100, 105, 115, 116, 105, 110, 99, 116>>   \* `distinct`
w_forbidden == <<102, 111, 114, 98, 105, 100, 100, 101, 110>>   \* forbidden
w_FORBIDDEN == <<70, 79, 82, 66, 73, 68, 68, 69, 78>>   \* FORBIDDEN
w_quoted_forbidden == <<34, 102, 111, 114, 98, 105, 100, 100, 101, 110, 34>>   \* "forbidden"
w_quoted_Forbidden == <<34, 70, 111, 114, 98, 105, 100, 100, 101, 110, 34>>   \* "Forbidden"
w_ticked_forbidden == <<96, 102, 111, 114, 98, 105, 100, 100, 101, 110, 96>>   \* `forbidden`
w_bracketed_forbidden == <<91, 102, 111, 114, 98, 105, 100, 100, 101, 110, 93>>   \* [forbidden]
w_mismatched_forbidden == <<34, 102, 111, 114, 98, 105, 100, 100, 101, 110, 93>>   \* "forbidden]
w_twice_quoted_forbidden == <<34, 34, 102, 111, 114, 98, 105, 100, 100, 101, 110, 34, 34>>   \* ""forbidden""
w_empty_quotes == <<34, 34>>   \* ""
w_one_quote == <<34>>   \* "
w_t_e_acute == <<116, 195, 169>>   \* t and U+00E9, three bytes
w_a == <<97>>   \* `a`
w_b == <<98>>   \* `b`
w_quoted_a == <<34, 97, 34>>   \* `"a"`
w_sel == <<115, 101, 108>>   \* `sel`
w_dollar == <<36>>   \* `$`
w_open_paren == <<40>>   \* `(`
w_bang == <<33>>   \* `!`
sp_distinct == <<32, 100, 105, 115, 116, 105, 110, 99, 116>>   \* ` distinct`
sp_DISTINCT == <<32, 68, 73, 83, 84, 73, 78, 67, 84>>   \* ` DISTINCT`
SpaceByte == <<32>>

(***************************************************************************)
(* The external lexer and parser (sqruff), which parse() drives: a small   *)
(* deterministic stand-in.  The lexer splits the source at spaces into     *)
(* whitespace tokens and words; a word is a Keyword when it is one of      *)
(* SELECT, UNION, ALL, DISTINCT, INTERSECT in any case; the word "$" is a  *)
(* lex error.  The parser emits EnterNode / ExitNode / Token events:       *)
(*   File( SelectStatement(select ...) [SetOperator(union [all|distinct])  *)
(*         SelectStatement(...)]* EndOfFile )                              *)
(* anything else where a statement is expected is wrapped in an            *)
(* Unparsable node; the word "(" makes the parser return an error and the  *)
(* word "!" makes it panic.  Whitespace is handed over between nodes, and  *)
(* the stream ends with the zero-length EndOfFile meta token.              *)
(***************************************************************************)
KeywordsUpper == {w_SELECT, w_FROM, w_UNION, w_ALL, w_DISTINCT, w_INTERSECT}

LexToken(raw) ==
    [kind |-> IF raw[1] = 32 THEN "Whitespace"
              ELSE IF to_ascii_uppercase(raw) \in KeywordsUpper THEN "Keyword"
              ELSE "Word",
     raw |-> raw,
     is_whitespace |-> raw[1] = 32,
     is_comment |-> FALSE,
     is_meta |-> FALSE]

EndOfFileToken ==
    [kind |-> "EndOfFile", raw |-> <<>>, is_whitespace |-> FALSE,
     is_comment |-> FALSE, is_meta |-> TRUE]

\* the end (exclusive, 0-based) of the run of equal-class bytes starting at i
RECURSIVE RunEnd(_, _)
RunEnd(src, i) ==
    IF i + 1 >= Len(src) THEN Len(src)
    ELSE IF (src[i + 1] = 32) = (src[i + 2] = 32) THEN RunEnd(src, i + 1)
    ELSE i + 1

RECURSIVE lex_from(_, _)
lex_from(src, i) ==
    IF i >= Len(src) THEN <<>>
    ELSE LET e == RunEnd(src, i) IN
         <<[tok |-> LexToken(Slice(src, i, e)), start |-> i, end |-> e]>>
             \o lex_from(src, e)

lex_spans(spans) ==
    [tokens |-> [i \in 1..Len(spans) |-> spans[i].tok],
     errors |-> SelectSeq([i \in 1..Len(spans) |->
                              [message |-> "Unable to lex characters",
                               start |-> spans[i].start,
                               end |-> spans[i].end,
                               bad |-> spans[i].tok.raw = w_dollar]],
                          LAMBDA e : e.bad)]

lex_str(src) == lex_spans(lex_from(src, 0))

EnterNode(kind) == [type |-> "enter_node", kind |-> kind, token |-> EndOfFileToken]
ExitNode(kind) == [type |-> "exit_node", kind |-> kind, token |-> EndOfFileToken]
Token(tok) == [type |-> "token", kind |-> tok.kind, token |-> tok]
ParserFailed == [type |-> "error", kind |-> "None", token |-> EndOfFileToken]
ParserPanicked == [type |-> "panic", kind |-> "None", token |-> EndOfFileToken]

IsWord(toks, i, upper) == i <= Len(toks) /\ to_ascii_uppercase(toks[i].raw) = upper

RECURSIVE NextSignificant(_, _)
NextSignificant(toks, i) ==
    IF i > Len(toks) \/ ~toks[i].is_whitespace THEN i
    ELSE NextSignificant(toks, i + 1)

RECURSIVE LastSignificant(_, _)
LastSignificant(toks, i) ==
    IF i = 0 \/ ~toks[i].is_whitespace THEN i ELSE LastSignificant(toks, i - 1)

TokenEvents(toks, from, to) == [k \in 1..(to - from + 1) |-> Token(toks[from + k - 1])]

RECURSIVE parse_statement(_, _)
RECURSIVE parse_select(_, _)
RECURSIVE parse_between(_, _)

\* where a statement is expected
parse_statement(toks, i) ==
    IF i > Len(toks) THEN <<Token(EndOfFileToken), ExitNode("File")>>
    ELSE IF toks[i].is_whitespace THEN <<Token(toks[i])>> \o parse_statement(toks, i + 1)
    ELSE IF toks[i].raw = w_bang THEN <<ParserPanicked>>
    ELSE IF toks[i].raw = w_open_paren THEN <<ParserFailed>>
    ELSE IF IsWord(toks, i, w_SELECT)
         THEN <<EnterNode("SelectStatement"), Token(toks[i])>> \o parse_select(toks, i + 1)
    ELSE LET last == LastSignificant(toks, Len(toks)) IN
         <<EnterNode("Unparsable")>> \o TokenEvents(toks, i, last)
             \o <<ExitNode("Unparsable")>> \o TokenEvents(toks, last + 1, Len(toks))
             \o <<Token(EndOfFileToken), ExitNode("File")>>

\* inside a SelectStatement, after its first keyword
parse_select(toks, i) ==
    LET j == NextSignificant(toks, i) IN
    IF j > Len(toks) \/ IsWord(toks, j, w_UNION) \/ IsWord(toks, j, w_INTERSECT)
    THEN <<ExitNode("SelectStatement")>> \o parse_between(toks, i)
    ELSE IF toks[i].is_whitespace THEN <<Token(toks[i])>> \o parse_select(toks, i + 1)
    ELSE IF toks[i].raw = w_bang THEN <<ParserPanicked>>
    ELSE IF toks[i].raw = w_open_paren THEN <<ParserFailed>>
    ELSE <<Token(toks[i])>> \o parse_select(toks, i + 1)

\* after a SelectStatement: the end of the input, or a set operator
parse_between(toks, i) ==
    IF i > Len(toks) THEN <<Token(EndOfFileToken), ExitNode("File")>>
    ELSE IF toks[i].is_whitespace THEN <<Token(toks[i])>> \o parse_between(toks, i + 1)
    ELSE IF IsWord(toks, i, w_INTERSECT)
         THEN <<EnterNode("SetOperator"), Token(toks[i]), ExitNode("SetOperator")>>
                  \o parse_statement(toks, i + 1)
    ELSE LET j == NextSignificant(toks, i + 1) IN
         IF IsWord(toks, j, w_ALL) \/ IsWord(toks, j, w_DISTINCT)
         THEN <<EnterNode("SetOperator")>> \o TokenEvents(toks, i, j)
                  \o <<ExitNode("SetOperator")>> \o parse_statement(toks, j + 1)
         ELSE <<EnterNode("SetOperator"), Token(toks[i]), ExitNode("SetOperator")>>
                  \o parse_statement(toks, i + 1)

parse_with_sink(toks) == <<EnterNode("File")>> \o parse_statement(toks, 1)

(***************************************************************************)
(* TreeBuilder: the event sink that turns the parser's events into the     *)
(* arena (nodes, node_children, tokens).  Ids are the program's 0-based    *)
(* NodeId / TokenId; tokens[1] is the sentinel TokenId(0).  An Option is a *)
(* sequence of length 0 or 1, except Node.parent where None is NoParent.   *)
(* A panic raised inside the builder is recorded in the field panic.       *)
(***************************************************************************)
NoParent == 0 - 1
Last(q) == q[Len(q)]
Front(q) == SubSeq(q, 1, Len(q) - 1)
NodeRef(id) == [is_node |-> TRUE, id |-> id]
TokenRef(id) == [is_node |-> FALSE, id |-> id]

AttachedTrivia(has_leading, has_trailing, trivia_len) ==
    [has_leading_trivia |-> has_leading, has_trailing_trivia |-> has_trailing,
     trivia_len |-> trivia_len]

new_rootless_with_caps(sql) ==
    [nodes |-> <<>>,
     node_children |-> <<>>,
     tokens |-> <<[kind |-> "EndOfFile", attached_trivia |-> AttachedTrivia(FALSE, FALSE, 0),
                   end |-> 0, parent |-> 0]>>,
     text |-> sql,
     opened |-> <<>>,
     text_cursor |-> 0,
     pending |-> <<>>,
     leading |-> <<>>,
     trailing |-> <<>>,
     panic |-> "none"]

Panicked(b, message) == [b EXCEPT !.panic = message]

TriviaState_abandon(b) == [b EXCEPT !.pending = <<>>, !.leading = <<>>, !.trailing = <<>>]

\* a variant that clears the trivia state and keeps the open frames
abandon_keeps_frames(b) == TriviaState_abandon(b)

abandon(b) == [TriviaState_abandon(b) EXCEPT !.opened = <<>>]

\* Drop for TreeBuilder: the panic it raises, or "none"
drop(b, panicking) ==
    IF ~panicking /\ b.opened # <<>> THEN "you should call TreeBuilder::finish()"
    ELSE "none"

bump_range_restarting(dst, new) == <<new>>

bump_range(dst, new) == IF dst = <<>> THEN <<new>> ELSE <<<<dst[1][1], new[2]>>>>

push_child(opened, ref) ==
    [opened EXCEPT ![Len(opened)].children = Append(@, ref)]

start_node_reserve(b, kind) ==
    LET parent == IF b.opened = <<>> THEN NoParent ELSE Last(b.opened).id
        new_node == Len(b.nodes)
        opened1 == IF parent # NoParent THEN push_child(b.opened, NodeRef(new_node))
                   ELSE b.opened
    IN [b EXCEPT
          !.nodes = Append(@, [parent |-> parent, kind |-> kind,
                               children |-> [start |-> 0, end |-> 0],
                               first_token |-> 0, last_token |-> 0]),
          !.opened = Append(opened1, [id |-> new_node, children |-> <<>>,
                                      token_range |-> <<>>])]

close_top_frame(b) ==
    IF b.opened = <<>> THEN Panicked(b, "no opened nodes?")
    ELSE LET frame == Last(b.opened)
             rest == Front(b.opened)
         IN IF frame.token_range = <<>>
            THEN Panicked([b EXCEPT !.opened = rest], "node without tokens")
            ELSE LET first == frame.token_range[1][1]
                     last == frame.token_range[1][2]
                 IN [b EXCEPT
                       !.nodes[frame.id + 1] =
                           [@ EXCEPT !.first_token = first, !.last_token = last,
                                     !.children = [start |-> Len(b.node_children),
                                                   end |-> Len(b.node_children)
                                                             + Len(frame.children)]],
                       !.node_children = @ \o frame.children,
                       !.opened = IF rest = <<>> THEN rest
                                  ELSE [rest EXCEPT ![Len(rest)].token_range =
                                            bump_range(@, <<first, last>>)]]

\* the text offset after the first k of the (kind, text_len) pairs
RECURSIVE advance_text(_, _, _)
advance_text(cursor, trivia, k) ==
    IF k = 0 THEN cursor ELSE advance_text(cursor, trivia, k - 1) + trivia[k].text_len

u16_MAX == 65535

\* a variant that extends the frame's range by the token alone, without the
\* trivia emitted around it
emit_token_with_trivia_token_only(b, leading_trivia, kind, token_len, trailing_trivia) ==
    IF b.opened = <<>> THEN Panicked(b, "no opened nodes?")
    ELSE IF Len(leading_trivia) > u16_MAX \/ Len(trailing_trivia) > u16_MAX
         THEN Panicked(b, "trivia_len must fit into u16")
    ELSE
    LET parent == Last(b.opened).id
        leading_trivia_len == Len(leading_trivia)
        trailing_trivia_len == Len(trailing_trivia)
        first_token_index == Len(b.tokens)
        token == first_token_index + leading_trivia_len
        lead_end == advance_text(b.text_cursor, leading_trivia, leading_trivia_len)
        token_end == lead_end + token_len
        last_token_index == first_token_index + leading_trivia_len + trailing_trivia_len
        leading_tokens ==
            [k \in 1..leading_trivia_len |->
                [kind |-> leading_trivia[k].kind,
                 attached_trivia |-> AttachedTrivia(FALSE, FALSE, 0),
                 end |-> advance_text(b.text_cursor, leading_trivia, k),
                 parent |-> parent]]
        main_token ==
            [kind |-> kind,
             attached_trivia |-> AttachedTrivia(leading_trivia_len # 0,
                                                trailing_trivia_len # 0,
                                                leading_trivia_len),
             end |-> token_end,
             parent |-> parent]
        trailing_tokens ==
            [k \in 1..trailing_trivia_len |->
                [kind |-> trailing_trivia[k].kind,
                 attached_trivia |-> AttachedTrivia(FALSE, FALSE, trailing_trivia_len),
                 end |-> advance_text(token_end, trailing_trivia, k),
                 parent |-> parent]]
        opened1 == push_child(b.opened, TokenRef(token))
    IN [b EXCEPT
          !.tokens = @ \o leading_tokens \o <<main_token>> \o trailing_tokens,
          !.text_cursor = advance_text(token_end, trailing_trivia, trailing_trivia_len),
          !.opened = [opened1 EXCEPT ![Len(opened1)].token_range =
                         bump_range(@, <<token, token>>)]]

emit_token_with_trivia(b, leading_trivia, kind, token_len, trailing_trivia) ==
    IF b.opened = <<>> THEN Panicked(b, "no opened nodes?")
    ELSE IF Len(leading_trivia) > u16_MAX \/ Len(trailing_trivia) > u16_MAX
         THEN Panicked(b, "trivia_len must fit into u16")
    ELSE
    LET parent == Last(b.opened).id
        leading_trivia_len == Len(leading_trivia)
        trailing_trivia_len == Len(trailing_trivia)
        first_token_index == Len(b.tokens)
        token == first_token_index + leading_trivia_len
        lead_end == advance_text(b.text_cursor, leading_trivia, leading_trivia_len)
        token_end == lead_end + token_len
        last_token_index == first_token_index + leading_trivia_len + trailing_trivia_len
        leading_tokens ==
            [k \in 1..leading_trivia_len |->
                [kind |-> leading_trivia[k].kind,
                 attached_trivia |-> AttachedTrivia(FALSE, FALSE, 0),
                 end |-> advance_text(b.text_cursor, leading_trivia, k),
                 parent |-> parent]]
        main_token ==
            [kind |-> kind,
             attached_trivia |-> AttachedTrivia(leading_trivia_len # 0,
                                                trailing_trivia_len # 0,
                                                leading_trivia_len),
             end |-> token_end,
             parent |-> parent]
        trailing_tokens ==
            [k \in 1..trailing_trivia_len |->
                [kind |-> trailing_trivia[k].kind,
                 attached_trivia |-> AttachedTrivia(FALSE, FALSE, trailing_trivia_len),
                 end |-> advance_text(token_end, trailing_trivia, k),
                 parent |-> parent]]
        opened1 == push_child(b.opened, TokenRef(token))
    IN [b EXCEPT
          !.tokens = @ \o leading_tokens \o <<main_token>> \o trailing_tokens,
          !.text_cursor = advance_text(token_end, trailing_trivia, trailing_trivia_len),
          !.opened = [opened1 EXCEPT ![Len(opened1)].token_range =
                         bump_range(@, <<first_token_index, last_token_index>>)]]

\* a variant that cuts a trivia run too long for trivia_len down to its
\* first token instead of failing
flush_into_truncating(b) ==
    IF b.pending = <<>> THEN b
    ELSE emit_token_with_trivia(
             [b EXCEPT !.pending = <<>>, !.leading = <<>>, !.trailing = <<>>],
             IF Len(b.leading) > u16_MAX THEN SubSeq(b.leading, 1, 1) ELSE b.leading,
             b.pending[1].kind, b.pending[1].text_len,
             IF Len(b.trailing) > u16_MAX THEN SubSeq(b.trailing, 1, 1) ELSE b.trailing)

flush_into(b) ==
    IF b.pending = <<>> THEN b
    ELSE emit_token_with_trivia(
             [b EXCEPT !.pending = <<>>, !.leading = <<>>, !.trailing = <<>>],
             b.leading, b.pending[1].kind, b.pending[1].text_len, b.trailing)

push_trivia(b, token) ==
    LET item == [kind |-> token.kind, text_len |-> Len(token.raw)] IN
    IF b.pending # <<>> THEN [b EXCEPT !.trailing = Append(@, item)]
    ELSE [b EXCEPT !.leading = Append(@, item)]

emit_meta(b, token) ==
    emit_token_with_trivia([b EXCEPT !.leading = <<>>],
                           b.leading, token.kind, Len(token.raw), <<>>)

\* a variant that measures the token in characters instead of bytes
set_pending_counting_chars(b, token) ==
    [b EXCEPT !.pending =
        <<[kind |-> token.kind,
           text_len |-> Cardinality({i \in 1..Len(token.raw) : token.raw[i] \notin 128..191})]>>]

set_pending(b, token) ==
    [b EXCEPT !.pending = <<[kind |-> token.kind, text_len |-> Len(token.raw)]>>]

\* the part of a handler that follows its flush of the pending token
on_token_flushed(flushed, token) ==
    IF flushed.panic # "none" THEN flushed
    ELSE IF token.is_meta THEN emit_meta(flushed, token)
    ELSE set_pending(flushed, token)

on_token(b, token) ==
    IF token.is_whitespace \/ token.is_comment THEN push_trivia(b, token)
    ELSE on_token_flushed(flush_into(b), token)

enter_node_flushed(flushed, kind) ==
    IF flushed.panic # "none" THEN flushed ELSE start_node_reserve(flushed, kind)

\* a variant that opens the node without flushing the pending token first
enter_node_unflushed(b, kind) == enter_node_flushed(b, kind)

enter_node(b, kind) == enter_node_flushed(flush_into(b), kind)

exit_node_flushed(flushed) ==
    IF flushed.panic # "none" THEN flushed ELSE close_top_frame(flushed)

exit_node(b) == exit_node_flushed(flush_into(b))

TreeInner(closed) ==
    [text |-> closed.text, tokens |-> closed.tokens, nodes |-> closed.nodes,
     node_children |-> closed.node_children, panic |-> closed.panic]

\* a variant that closes the top frame however many frames are open
finish_impl_closing_top(flushed) ==
    TreeInner(IF flushed.panic # "none" THEN flushed
              ELSE IF Len(flushed.opened) = 0
                   THEN IF flushed.nodes = <<>> THEN Panicked(flushed, "no root node")
                        ELSE flushed
              ELSE close_top_frame(flushed))

finish_impl(flushed) ==
    TreeInner(IF flushed.panic # "none" THEN flushed
              ELSE IF Len(flushed.opened) = 0
                   THEN IF flushed.nodes = <<>> THEN Panicked(flushed, "no root node")
                        ELSE flushed
              ELSE IF Len(flushed.opened) = 1 THEN close_top_frame(flushed)
              ELSE Panicked(flushed, "unbalanced nodes in TreeBuilder::finish()"))

finish(b) == finish_impl(flush_into(b))

(***************************************************************************)
(* Reading the finished tree: token and node ranges and text, children,    *)
(* and the pre-order walk with tokens.                                     *)
(***************************************************************************)
token_start(tree, id) == tree.tokens[id].end
token_end(tree, id) == tree.tokens[id + 1].end
token_text(tree, id) == Slice(tree.text, token_start(tree, id), token_end(tree, id))
token_kind(tree, id) == tree.tokens[id + 1].kind

node_data(tree, id) == tree.nodes[id + 1]
node_start(tree, id) == token_start(tree, node_data(tree, id).first_token)
node_end(tree, id) == token_end(tree, node_data(tree, id).last_token)
node_text(tree, id) == Slice(tree.text, node_start(tree, id), node_end(tree, id))

\* a variant that yields the child nodes and leaves out the child tokens
children_with_tokens_nodes_only(tree, id) ==
    SelectSeq(SubSeq(tree.node_children, node_data(tree, id).children.start + 1,
                     node_data(tree, id).children.end),
              LAMBDA el : el.is_node)

children_with_tokens(tree, id) ==
    LET range == node_data(tree, id).children IN
    SubSeq(tree.node_children, range.start + 1, range.end)

\* PreorderWithTokens: the stack holds, for each entered node, its children
\* not yet visited; descendants_with_tokens drops the LeaveNode events
RECURSIVE preorder_next(_, _, _)
preorder_next(tree, stack, visited) ==
    IF stack = <<>> THEN visited
    ELSE LET active == Last(stack) IN
         IF active = <<>> THEN preorder_next(tree, Front(stack), visited)
         ELSE LET child == Head(active)
                  popped == [stack EXCEPT ![Len(stack)] = Tail(active)]
              IN IF child.is_node
                 THEN preorder_next(tree,
                                    Append(popped, children_with_tokens(tree, child.id)),
                                    Append(visited, child))
                 ELSE preorder_next(tree, popped, Append(visited, child))

descendants_with_tokens(tree) ==
    preorder_next(tree, <<children_with_tokens(tree, 0)>>, <<NodeRef(0)>>)

descendants(tree) == SelectSeq(descendants_with_tokens(tree), LAMBDA el : el.is_node)

\* TokenId::prev_token: None for the first real token
prev_token(id) == IF id <= 1 THEN <<>> ELSE <<id - 1>>

TokenIter_new(start, len) == [k \in 1..len |-> start + k - 1]

\* a variant whose run starts one token early
leading_trivia_one_early(tree, id) ==
    IF ~tree.tokens[id + 1].attached_trivia.has_leading_trivia THEN <<>>
    ELSE TokenIter_new(id - tree.tokens[id + 1].attached_trivia.trivia_len - 1,
                       tree.tokens[id + 1].attached_trivia.trivia_len)

leading_trivia(tree, id) ==
    IF ~tree.tokens[id + 1].attached_trivia.has_leading_trivia THEN <<>>
    ELSE TokenIter_new(id - tree.tokens[id + 1].attached_trivia.trivia_len,
                       tree.tokens[id + 1].attached_trivia.trivia_len)

trailing_trivia(tree, id) ==
    IF ~tree.tokens[id + 1].attached_trivia.has_trailing_trivia THEN <<>>
    ELSE TokenIter_new(id + 1, tree.tokens[id + 2].attached_trivia.trivia_len)

text_range_including_trivia(tree, id) ==
    LET lead == leading_trivia(tree, id)
        trail == trailing_trivia(tree, id)
    IN [start |-> token_start(tree, IF lead = <<>> THEN id ELSE Head(lead)),
        end |-> token_end(tree, IF trail = <<>> THEN id ELSE Last(trail))]

text_including_trivia(tree, id) ==
    Slice(tree.text, text_range_including_trivia(tree, id).start,
          text_range_including_trivia(tree, id).end)

contains_range(outer, inner) == outer.start <= inner.start /\ inner.end <= outer.end

token_text_range(tree, id) == [start |-> token_start(tree, id), end |-> token_end(tree, id)]
node_text_range(tree, id) == [start |-> node_start(tree, id), end |-> node_end(tree, id)]

\* slice::partition_point over the node's tokens first..last: how many of
\* them, from the front, end at or before the offset
RECURSIVE partition_point(_, _, _, _)
partition_point(tree, first, last, offset) ==
    IF first > last \/ token_end(tree, first) > offset THEN 0
    ELSE 1 + partition_point(tree, first + 1, last, offset)

TokenAtOffset_None == [variant |-> "None", tokens |-> <<>>]
TokenAtOffset_Single(t) == [variant |-> "Single", tokens |-> <<t>>]
TokenAtOffset_Between(l, r) == [variant |-> "Between", tokens |-> <<l, r>>]

token_at_offset_found(tree, token_index, offset) ==
    IF token_index >= Len(tree.tokens) THEN TokenAtOffset_None
    ELSE IF token_end(tree, token_index) <= offset THEN TokenAtOffset_None
    ELSE IF prev_token(token_index) # <<>>
            /\ token_end(tree, prev_token(token_index)[1]) = offset
         THEN TokenAtOffset_Between(prev_token(token_index)[1], token_index)
    ELSE TokenAtOffset_Single(token_index)

token_at_offset(tree, node, offset) ==
    token_at_offset_found(
        tree,
        node_data(tree, node).first_token
            + partition_point(tree, node_data(tree, node).first_token,
                              node_data(tree, node).last_token, offset),
        offset)

right_biased(at) == IF at.variant = "None" THEN <<>> ELSE <<Last(at.tokens)>>
left_biased(at) == IF at.variant = "None" THEN <<>> ELSE <<Head(at.tokens)>>

Covering(el) == [panic |-> "none", el |-> el]
CoveringPanics == [panic |-> "range is not inside the node", el |-> NodeRef(0)]

\* the loop of covering_element: up from a node until one contains the range
RECURSIVE covering_ancestor(_, _, _)
covering_ancestor(tree, current, range) ==
    IF contains_range(node_text_range(tree, current), range) THEN Covering(NodeRef(current))
    ELSE IF node_data(tree, current).parent = NoParent THEN CoveringPanics
    ELSE covering_ancestor(tree, node_data(tree, current).parent, range)

covering_from_token(tree, token, range) ==
    IF token = <<>> THEN CoveringPanics
    ELSE IF contains_range(token_text_range(tree, token[1]), range)
         THEN Covering(TokenRef(token[1]))
    ELSE covering_ancestor(tree, tree.tokens[token[1] + 1].parent, range)

covering_element(tree, node, range) ==
    covering_from_token(tree, right_biased(token_at_offset(tree, node, range.start)), range)

\* a variant that never reports an Unparsable node
collect_unparsable_ranges_none(tree) == <<>>

collect_unparsable_ranges(tree) ==
    LET unparsable == SelectSeq(descendants(tree),
                                LAMBDA el : node_data(tree, el.id).kind = "Unparsable")
    IN [k \in 1..Len(unparsable) |->
           [start |-> node_start(tree, unparsable[k].id),
            end |-> node_end(tree, unparsable[k].id)]]

(***************************************************************************)
(* parse: dialect lookup, lexing, the parser driving the sink under        *)
(* catch_unwind, and the scan for Unparsable nodes.                        *)
(***************************************************************************)
sink_event(b, ev) ==
    IF ev.type = "enter_node" THEN enter_node(b, ev.kind)
    ELSE IF ev.type = "exit_node" THEN exit_node(b)
    ELSE on_token(b, ev.token)

RECURSIVE drive_sink(_, _, _)
RECURSIVE drive_next(_, _, _)
drive_sink(b, events, i) ==
    IF i > Len(events) THEN [outcome |-> "ok", sink |-> b]
    ELSE IF events[i].type = "error" THEN [outcome |-> "error", sink |-> b]
    ELSE IF events[i].type = "panic"
         THEN [outcome |-> "panic", sink |-> Panicked(b, "parser panicked")]
    ELSE drive_next(sink_event(b, events[i]), events, i)

\* a panic inside the sink unwinds out of the parser
drive_next(next, events, i) ==
    IF next.panic # "none" THEN [outcome |-> "panic", sink |-> next]
    ELSE drive_sink(next, events, i + 1)

ParseOk(tree) == [ok |-> TRUE, tree |-> tree, err |-> "None", items |-> <<>>]
ParseError(kind, items) == [ok |-> FALSE, tree |-> NoTree, err |-> kind, items |-> items]

parse_ranges(tree, ranges) ==
    IF ranges = <<>> THEN ParseOk(tree)
    ELSE ParseError("Unparsable",
                    [k \in 1..Len(ranges) |->
                        [message |-> "", start |-> ranges[k].start, end |-> ranges[k].end]])

\* a panic that is raised outside catch_unwind leaves parse by unwinding
ParseUnwinds(message) ==
    ParseError("Unwound", <<[message |-> message, start |-> 0, end |-> 0]>>)

parse_finished(tree) ==
    IF tree.panic # "none" THEN ParseUnwinds(tree.panic)
    ELSE parse_ranges(tree, collect_unparsable_ranges(tree))

\* the abandoned sink is dropped when parse returns its error
parse_abandoned(dropped, error) ==
    IF dropped # "none" THEN ParseUnwinds(dropped) ELSE error

parse_driven(driven) ==
    IF driven.outcome = "error"
    THEN parse_abandoned(drop(abandon(driven.sink), FALSE),
                         ParseError("Parse", <<[message |-> "Couldn't find closing bracket",
                                                start |-> 0, end |-> 0]>>))
    ELSE IF driven.outcome = "panic"
    THEN parse_abandoned(drop(abandon(driven.sink), FALSE),
                         ParseError("Panic", <<[message |-> driven.sink.panic,
                                                start |-> 0, end |-> 0]>>))
    ELSE parse_finished(finish(driven.sink))

parse_lexed(sql, lexed) ==
    IF lexed.errors # <<>>
    THEN ParseError("Lex", [k \in 1..Len(lexed.errors) |->
                               [message |-> lexed.errors[k].message,
                                start |-> lexed.errors[k].start,
                                end |-> lexed.errors[k].end]])
    ELSE parse_driven(drive_sink(new_rootless_with_caps(sql),
                                 parse_with_sink(lexed.tokens), 1))

parse(sql, dialect_kind, compiled) ==
    IF dialect_kind \notin compiled
    THEN ParseError("UnknownDialect", <<[message |-> dialect_kind, start |-> 0, end |-> 0]>>)
    ELSE parse_lexed(sql, lex_str(sql))

(***************************************************************************)
(* The lint rules.  A diagnostic is [code, message, severity, range, fix]; *)
(* fix is an Option (a sequence of length 0 or 1) of [title, edits].  A    *)
(* regular expression of the configuration is a literal pattern, matched   *)
(* anywhere in the text.  Every rule takes and returns the accumulator     *)
(* [diagnostics, calls]; calls records each invocation of a rule's check.  *)
(***************************************************************************)
Diagnostic(code, message, severity, start, end) ==
    [code |-> code, message |-> message, severity |-> severity,
     range |-> [start |-> start, end |-> end], fix |-> <<>>]
with_fix(diagnostic, fix) == [diagnostic EXCEPT !.fix = <<fix>>]
Fix_single(title, edit) == [title |-> title, edits |-> <<edit>>]
TextEdit_insert(offset, t) == TextEdit(offset, offset, t)
is_match(regex, t) == contains(t, regex)

Pushed(acc, diagnostic) == [acc EXCEPT !.diagnostics = Append(@, diagnostic)]
Invoked(acc, lint, el) == [acc EXCEPT !.calls = Append(@, [lint |-> lint, element |-> el])]

\* explicit_union
\* a variant that counts Postgres among the supported dialects
dialect_supports_union_with_postgres(dialect) ==
    dialect \in {"Ansi", "Bigquery", "Clickhouse", "Databricks", "Mysql", "Postgres", "Redshift",
                 "Snowflake", "Trino"}

dialect_supports_union(dialect) ==
    dialect \in {"Ansi", "Bigquery", "Clickhouse", "Databricks", "Mysql", "Redshift",
                 "Snowflake", "Trino"}

\* a variant that compares the token text with "union" byte for byte
union_token_case_sensitive(tree, node) ==
    SelectSeq(children_with_tokens(tree, node),
              LAMBDA child : ~child.is_node /\ token_text(tree, child.id) = w_union)

union_token(tree, node) ==
    SelectSeq(children_with_tokens(tree, node),
              LAMBDA child : ~child.is_node
                             /\ eq_ignore_ascii_case(token_text(tree, child.id), w_union))

\* a variant that inserts the uppercase suffix whatever the case of the token
build_fix_always_upper(tree, token) ==
    Fix_single("Add DISTINCT to UNION", TextEdit_insert(token_end(tree, token), sp_DISTINCT))

\* a variant that rewrites the union token instead of inserting after it
build_fix_replacing_token(tree, token) ==
    Fix_single("Add DISTINCT to UNION",
               TextEdit(token_start(tree, token), token_end(tree, token),
                        token_text(tree, token) \o sp_DISTINCT))

build_fix(tree, token) ==
    LET t == token_text(tree, token)
        suffix == IF \A i \in 1..Len(t) : ~is_ascii_uppercase(t[i])
                  THEN sp_distinct ELSE sp_DISTINCT
    IN Fix_single("Add DISTINCT to UNION", TextEdit_insert(token_end(tree, token), suffix))

explicit_union_check(ctx, node, acc) ==
    IF ~dialect_supports_union(ctx.dialect) THEN acc
    ELSE LET found == union_token(ctx.tree, node) IN
    IF found = <<>> THEN acc
    ELSE LET token == found[1].id
             upper == to_ascii_uppercase(node_text(ctx.tree, node))
         IN IF ~contains(upper, w_UNION) THEN acc
            ELSE IF contains(upper, w_ALL) \/ contains(upper, w_DISTINCT) THEN acc
            ELSE Pushed(acc,
                     with_fix(Diagnostic("explicit_union", "Use UNION DISTINCT or UNION ALL.",
                                         ctx.config.lints.explicit_union.level,
                                         token_start(ctx.tree, token),
                                         token_end(ctx.tree, token)),
                              build_fix(ctx.tree, token)))

\* disallow_names
disallow_names_matches(kind) == kind \notin {"Comment", "InlineComment", "BlockComment"}

\* a variant that strips whenever the first byte opens and the last byte
\* closes a quotation, whether or not the two belong together
strip_identifier_quotes_any_pair(t) ==
    IF Len(t) < 2 THEN t
    ELSE IF t[1] \in {34, 96, 91} /\ t[Len(t)] \in {34, 96, 93}
         THEN Slice(t, 1, Len(t) - 1)
    ELSE t

strip_identifier_quotes(t) ==
    IF Len(t) < 2 THEN t
    ELSE IF <<t[1], t[Len(t)]>> \in {<<34, 34>>, <<96, 96>>, <<91, 93>>}
         THEN Slice(t, 1, Len(t) - 1)
    ELSE t

disallow_names_check(ctx, token, acc) ==
    LET options == ctx.config.lints.disallow_names.options IN
    IF options.names = <<>> /\ options.regexes = <<>> THEN acc
    ELSE LET candidate == strip_identifier_quotes(token_text(ctx.tree, token)) IN
    IF candidate = <<>> THEN acc
    ELSE LET name_match == \E k \in DOMAIN options.names :
                               eq_ignore_ascii_case(options.names[k], candidate)
             regex_match == \E k \in DOMAIN options.regexes :
                               is_match(options.regexes[k], candidate)
         IN IF ~name_match /\ ~regex_match THEN acc
            ELSE Pushed(acc,
                     Diagnostic("disallow_names",
                                <<"Disallowed name: ", candidate, ".">>,
                                ctx.config.lints.disallow_names.level,
                                token_start(ctx.tree, token), token_end(ctx.tree, token)))

\* inconsistent_capitalisation
inconsistent_capitalisation_matches(kind) == kind = "Keyword"

policy_description(policy) ==
    CASE policy = "Consistent" -> "consistent"
      [] policy = "Upper" -> "uppercase"
      [] policy \in {"Lower", "Snake"} -> "lowercase"
      [] policy \in {"Pascal", "Capitalise"} -> "capitalised"
      [] policy = "Camel" -> "camelCase"

is_ignored(t, options) ==
    \/ \E k \in DOMAIN options.ignore_words :
           eq_ignore_ascii_case(options.ignore_words[k], t)
    \/ \E k \in DOMAIN options.ignore_words_regex :
           is_match(options.ignore_words_regex[k], t)

is_all_upper(t) == ~\E i \in 1..Len(t) : is_ascii_lowercase(t[i])
is_all_lower(t) == ~\E i \in 1..Len(t) : is_ascii_uppercase(t[i])
is_capitalised(t) ==
    /\ t = <<>> \/ is_ascii_uppercase(t[1])
    /\ ~\E i \in 2..Len(t) : is_ascii_uppercase(t[i])
\* a variant that raises the first byte and leaves the others as they are
capitalise_first_only(t) == [i \in 1..Len(t) |-> IF i = 1 THEN byte_to_upper(t[i]) ELSE t[i]]

capitalise(t) ==
    [i \in 1..Len(t) |-> IF i = 1 THEN byte_to_upper(t[i]) ELSE byte_to_lower(t[i])]

\* a variant that compares the two counts the other way round
infer_policy_counts_swapped(ctx) ==
    LET keywords == SelectSeq(descendants_with_tokens(ctx.tree),
                              LAMBDA el : ~el.is_node
                                          /\ token_kind(ctx.tree, el.id) = "Keyword")
        upper == Cardinality({k \in DOMAIN keywords :
                                 is_all_upper(token_text(ctx.tree, keywords[k].id))})
        lower == Cardinality({k \in DOMAIN keywords :
                                 /\ ~is_all_upper(token_text(ctx.tree, keywords[k].id))
                                 /\ is_all_lower(token_text(ctx.tree, keywords[k].id))})
    IN IF lower >= upper THEN "Upper" ELSE "Lower"

\* a variant in which a tie between the two counts resolves to Lower
infer_policy_ties_lower(ctx) ==
    LET keywords == SelectSeq(descendants_with_tokens(ctx.tree),
                              LAMBDA el : ~el.is_node
                                          /\ token_kind(ctx.tree, el.id) = "Keyword")
        upper == Cardinality({k \in DOMAIN keywords :
                                 is_all_upper(token_text(ctx.tree, keywords[k].id))})
        lower == Cardinality({k \in DOMAIN keywords :
                                 /\ ~is_all_upper(token_text(ctx.tree, keywords[k].id))
                                 /\ is_all_lower(token_text(ctx.tree, keywords[k].id))})
    IN IF upper > lower THEN "Upper" ELSE "Lower"

infer_policy(ctx) ==
    LET keywords == SelectSeq(descendants_with_tokens(ctx.tree),
                              LAMBDA el : ~el.is_node
                                          /\ token_kind(ctx.tree, el.id) = "Keyword")
        upper == Cardinality({k \in DOMAIN keywords :
                                 is_all_upper(token_text(ctx.tree, keywords[k].id))})
        lower == Cardinality({k \in DOMAIN keywords :
                                 /\ ~is_all_upper(token_text(ctx.tree, keywords[k].id))
                                 /\ is_all_lower(token_text(ctx.tree, keywords[k].id))})
    IN IF upper >= lower THEN "Upper" ELSE "Lower"

resolve_policy(policy, ctx) == IF policy = "Consistent" THEN infer_policy(ctx) ELSE policy

is_correct_case(t, policy) ==
    CASE policy = "Consistent" -> TRUE
      [] policy = "Upper" -> is_all_upper(t)
      [] policy \in {"Lower", "Snake", "Camel"} -> is_all_lower(t)
      [] policy \in {"Pascal", "Capitalise"} -> is_capitalised(t)

\* a variant that writes the keyword back as it was
apply_case_unchanged(t, policy) == t

apply_case(t, policy) ==
    CASE policy = "Consistent" -> t
      [] policy = "Upper" -> to_ascii_uppercase(t)
      [] policy \in {"Lower", "Snake", "Camel"} -> to_ascii_lowercase(t)
      [] policy \in {"Pascal", "Capitalise"} -> capitalise(t)

inconsistent_capitalisation_check(ctx, token, acc) ==
    LET options == ctx.config.lints.inconsistent_capitalisation.options
        t == token_text(ctx.tree, token)
    IN IF is_ignored(t, options) THEN acc
       ELSE LET policy == resolve_policy(options.capitalisation_policy, ctx) IN
            IF is_correct_case(t, policy) THEN acc
            ELSE LET edit == TextEdit(token_start(ctx.tree, token),
                                      token_end(ctx.tree, token), apply_case(t, policy))
                 IN Pushed(acc,
                        with_fix(Diagnostic("inconsistent_capitalisation",
                                            <<"Keywords must be ", policy_description(policy), ".">>,
                                            ctx.config.lints.inconsistent_capitalisation.level,
                                            token_start(ctx.tree, token),
                                            token_end(ctx.tree, token)),
                                 Fix_single("Fix keyword capitalisation", edit)))

(***************************************************************************)
(* The dispatcher: one walk over the tree, node rules at a node, token     *)
(* rules at a token, each rule skipped when its level is Allow.            *)
(***************************************************************************)
lint_level(lint, config) ==
    CASE lint = "explicit_union" -> config.lints.explicit_union.level
      [] lint = "disallow_names" -> config.lints.disallow_names.level
      [] lint = "inconsistent_capitalisation" -> config.lints.inconsistent_capitalisation.level

lint_check(lint, ctx, el, acc) ==
    CASE lint = "explicit_union" -> explicit_union_check(ctx, el.id, Invoked(acc, lint, el))
      [] lint = "disallow_names" -> disallow_names_check(ctx, el.id, Invoked(acc, lint, el))
      [] lint = "inconsistent_capitalisation" ->
             inconsistent_capitalisation_check(ctx, el.id, Invoked(acc, lint, el))

run_node_lint(lint, ctx, el, acc) ==
    IF lint_level(lint, ctx.config) = "Allow" THEN acc
    ELSE IF node_data(ctx.tree, el.id).kind = "SetOperator" THEN lint_check(lint, ctx, el, acc)
    ELSE acc

token_lint_matches(lint, kind) ==
    IF lint = "disallow_names" THEN disallow_names_matches(kind)
    ELSE inconsistent_capitalisation_matches(kind)

\* a variant that does not look at the rule's level
run_token_lint_ungated(lint, ctx, el, acc) ==
    IF token_lint_matches(lint, token_kind(ctx.tree, el.id))
    THEN lint_check(lint, ctx, el, acc)
    ELSE acc

run_token_lint(lint, ctx, el, acc) ==
    IF lint_level(lint, ctx.config) = "Allow" THEN acc
    ELSE IF token_lint_matches(lint, token_kind(ctx.tree, el.id))
         THEN lint_check(lint, ctx, el, acc)
    ELSE acc

run_node_lints(ctx, el, acc) == run_node_lint("explicit_union", ctx, el, acc)

\* a variant that runs the token rules in the opposite order
run_token_lints_swapped(ctx, el, acc) ==
    run_token_lint("disallow_names", ctx, el,
                   run_token_lint("inconsistent_capitalisation", ctx, el, acc))

run_token_lints(ctx, el, acc) ==
    run_token_lint("inconsistent_capitalisation", ctx, el,
                   run_token_lint("disallow_names", ctx, el, acc))

RECURSIVE run_elements(_, _, _, _)
run_elements(ctx, elements, i, acc) ==
    IF i > Len(elements) THEN acc
    ELSE run_elements(ctx, elements, i + 1,
                      IF elements[i].is_node THEN run_node_lints(ctx, elements[i], acc)
                      ELSE run_token_lints(ctx, elements[i], acc))

run(dialect, tree, config) ==
    run_elements([dialect |-> dialect, tree |-> tree, config |-> config],
                 descendants_with_tokens(tree), 1,
                 [diagnostics |-> <<>>, calls |-> <<>>])

(***************************************************************************)
(* The public pipeline: check_with_config and fix_with_config.             *)
(***************************************************************************)
config_dialect(config) == config.core.dialect

diagnostics_from_parse_error(error) ==
    CASE error.err = "UnknownDialect" ->
             <<Diagnostic("unknown_dialect", <<"Dialect not available: ", error.items[1].message>>,
                          "Error", 0, 0)>>
      [] error.err = "Lex" ->
             [k \in 1..Len(error.items) |->
                 Diagnostic("lex_error", error.items[k].message, "Error",
                            error.items[k].start, error.items[k].end)]
      [] error.err = "Parse" ->
             <<Diagnostic("parse_error", error.items[1].message, "Error",
                          error.items[1].start, error.items[1].end)>>
      [] error.err = "Unparsable" ->
             [k \in 1..Len(error.items) |->
                 Diagnostic("unparsable", "Unparsable section.", "Error",
                            error.items[k].start, error.items[k].end)]
      [] error.err = "Panic" ->
             <<Diagnostic("parser_panic", error.items[1].message, "Error", 0, 0)>>

\* the diagnostics returned, with the parse outcome and the rule checks invoked
Returned(outcome, linted) ==
    [parse |-> outcome, diagnostics |-> linted.diagnostics, calls |-> linted.calls]

check_parsed(outcome, dialect, config) ==
    IF outcome.ok THEN Returned(outcome, run(dialect, outcome.tree, config))
    ELSE IF outcome.err = "Unwound"
    THEN Returned(outcome, [diagnostics |-> <<>>, calls |-> <<>>])
    ELSE Returned(outcome, [diagnostics |-> diagnostics_from_parse_error(outcome),
                            calls |-> <<>>])

check_with_dialect(source, dialect, config, compiled) ==
    check_parsed(parse(source, dialect, compiled), dialect, config)

check_with_config(source, config, compiled) ==
    check_with_dialect(source, config_dialect(config), config, compiled)

\* a variant that keeps only the first fix
collect_fixes_first_only(diagnostics) ==
    LET fixable == SelectSeq(diagnostics, LAMBDA d : d.fix # <<>>) IN
    IF fixable = <<>> THEN <<>> ELSE fixable[1].fix[1].edits

RECURSIVE collect_fixes(_)
collect_fixes(diagnostics) ==
    IF diagnostics = <<>> THEN <<>>
    ELSE (IF Head(diagnostics).fix = <<>> THEN <<>> ELSE Head(diagnostics).fix[1].edits)
             \o collect_fixes(Tail(diagnostics))

FixError(kind, cause) == [ok |-> FALSE, val |-> <<>>, err |-> kind, cause |-> cause]
FixOk(s) == [ok |-> TRUE, val |-> s, err |-> "None", cause |-> "None"]

fix_applied(applied) ==
    IF applied.ok THEN FixOk(applied.val) ELSE FixError("Apply", applied.err)

fix_collected(source, found) ==
    IF found = <<>> THEN FixOk(source) ELSE fix_applied(apply_edits(source, found))

fix_parsed(source, config, outcome) ==
    IF ~outcome.ok THEN FixError("Parse", outcome.err)
    ELSE fix_collected(source,
                       collect_fixes(run(config_dialect(config), outcome.tree,
                                         config).diagnostics))

fix_with_config(source, config, compiled) ==
    fix_parsed(source, config, parse(source, config_dialect(config), compiled))

\* the command line's renderer: the annotation level of a diagnostic
level_for_severity(severity) ==
    CASE severity = "Error" -> "ERROR"
      [] severity = "Warn" -> "WARNING"
      [] severity = "Info" -> "INFO"
      [] severity = "Hint" -> "HELP"
      [] severity = "Allow" -> "unreachable"

(***************************************************************************)
(* Inputs of the pipeline model.  A source is one SELECT, or a chain of up *)
(* to MaxSelects SELECTs joined by set operators, in several spellings of  *)
(* the keywords; or one of a few sources that the lexer or parser rejects. *)
(***************************************************************************)
RECURSIVE Join(_)
Join(words) ==
    IF words = <<>> THEN <<>>
    ELSE IF Len(words) = 1 THEN words[1]
    ELSE words[1] \o SpaceByte \o Join(Tail(words))

FirstSelects == {<<w_select, w_a>>, <<w_SELECT, w_a>>, <<w_Select, w_quoted_a>>}
NextSelects == {<<w_SELECT, w_b>>}
SetOperators == {<<w_union>>, <<w_UNION>>, <<w_Union>>, <<w_union, w_all>>, <<w_intersect>>}

RECURSIVE Chains(_)
Chains(n) ==
    IF n = 1 THEN FirstSelects
    ELSE LET shorter == Chains(n - 1) IN
         shorter \cup {c \o op \o sel : c \in {x \in shorter : Len(x) >= 2 * (n - 1)},
                                        op \in SetOperators, sel \in NextSelects}

Rejected == {<<w_sel>>, <<w_select, w_a, w_union, w_sel, w_b>>,
             <<w_select, w_dollar>>, <<w_dollar, w_a, w_dollar>>,
             <<w_select, w_open_paren>>, <<w_select, w_a, w_bang>>}

Sources == {Join(words) : words \in Chains(MaxSelects) \cup Rejected}

AllDialects == {"Ansi", "Athena", "Bigquery", "Clickhouse", "Databricks", "Duckdb", "Mysql",
                "Postgres", "Redshift", "Snowflake", "Sparksql", "Sqlite", "Trino", "Tsql"}

DisallowNamesConfigs ==
    {[level |-> "Warn", options |-> [names |-> <<>>, regexes |-> <<>>]],
     [level |-> "Error", options |-> [names |-> <<to_ascii_uppercase(w_a), w_UNION>>,
                                      regexes |-> <<w_b>>]]}
ExplicitUnionConfigs == {[level |-> "Warn"], [level |-> "Allow"]}
CapitalisationConfigs ==
    {[level |-> "Allow",
      options |-> [capitalisation_policy |-> "Consistent", ignore_words |-> <<>>,
                   ignore_words_regex |-> <<>>]],
     [level |-> "Hint",
      options |-> [capitalisation_policy |-> "Upper", ignore_words |-> <<w_SELECT>>,
                   ignore_words_regex |-> <<>>]]}
    \cup {[level |-> "Info",
           options |-> [capitalisation_policy |-> policy, ignore_words |-> <<>>,
                        ignore_words_regex |-> <<>>]] :
          policy \in {"Consistent", "Upper", "Lower", "Capitalise"}}

Configs ==
    {[core |-> [dialect |-> dialect],
      lints |-> [disallow_names |-> dn, explicit_union |-> eu,
                 inconsistent_capitalisation |-> ic]] :
        dialect \in {"Ansi", "Postgres"}, dn \in DisallowNamesConfigs,
        eu \in ExplicitUnionConfigs, ic \in CapitalisationConfigs}

Builds == {AllDialects, AllDialects \ {"Postgres"}}

(***************************************************************************)
(* The pipeline as a state machine: the caller checks a source, fixes it,  *)
(* and fixes the fixed text once more.                                     *)
(***************************************************************************)
InitPipeline ==
    /\ pc = "input"
    /\ doc \in Sources
    /\ conf \in Configs
    /\ build \in Builds
    /\ build # AllDialects =>
           conf.core.dialect \notin build /\ doc = Join(<<w_select, w_a>>)
    /\ checked = NotChecked
    /\ fixed = NoResult
    /\ refixed = NoResult
    /\ rechecked = NotChecked
    /\ text = <<>>
    /\ edits = <<>>
    /\ result = NoResult
    /\ iter = NoResult
    /\ BuilderIdle

CheckWithConfig ==
    /\ pc = "input"
    /\ checked' = check_with_config(doc, conf, build)
    /\ pc' = "checked"
    /\ UNCHANGED <<doc, conf, build, fixed, refixed, rechecked>>
    /\ UNCHANGED edit_vars
    /\ UNCHANGED builder_vars

FixWithConfig ==
    /\ pc = "checked"
    /\ fixed' = fix_with_config(doc, conf, build)
    /\ pc' = "fixed"
    /\ UNCHANGED <<doc, conf, build, checked, refixed, rechecked>>
    /\ UNCHANGED edit_vars
    /\ UNCHANGED builder_vars

FixAgain ==
    /\ pc = "fixed"
    /\ fixed.ok
    /\ refixed' = fix_with_config(fixed.val, conf, build)
    /\ pc' = "refixed"
    /\ UNCHANGED <<doc, conf, build, checked, fixed, rechecked>>
    /\ UNCHANGED edit_vars
    /\ UNCHANGED builder_vars

NextPipeline == CheckWithConfig \/ FixWithConfig \/ FixAgain

SpecPipeline == InitPipeline /\ [][NextPipeline]_vars

(***************************************************************************)
(* The capitalisation rule on its own: the other rules are switched off,   *)
(* the caller checks a source, applies the rule's fixes with               *)
(* fix_with_config, and checks the fixed text with the same configuration. *)
(***************************************************************************)
Policies == {"Consistent", "Upper", "Lower", "Snake", "Camel", "Pascal", "Capitalise"}
w_S == <<83>>
IgnoreLists ==
    {[ignore_words |-> <<>>, ignore_words_regex |-> <<>>],
     [ignore_words |-> <<w_union>>, ignore_words_regex |-> <<>>],
     [ignore_words |-> <<>>, ignore_words_regex |-> <<w_S>>]}

CapitalisationOnlyConfigs ==
    {[core |-> [dialect |-> "Ansi"],
      lints |-> [disallow_names |-> [level |-> "Allow",
                                     options |-> [names |-> <<>>, regexes |-> <<>>]],
                 explicit_union |-> [level |-> "Allow"],
                 inconsistent_capitalisation |->
                     [level |-> "Warn",
                      options |-> [capitalisation_policy |-> policy,
                                   ignore_words |-> ignored.ignore_words,
                                   ignore_words_regex |-> ignored.ignore_words_regex]]]] :
        policy \in Policies, ignored \in IgnoreLists}

InitCapitalisation ==
    /\ pc = "input"
    /\ doc \in {Join(words) : words \in Chains(MaxSelects)}
    /\ conf \in CapitalisationOnlyConfigs
    /\ build = AllDialects
    /\ checked = NotChecked
    /\ fixed = NoResult
    /\ refixed = NoResult
    /\ rechecked = NotChecked
    /\ text = <<>>
    /\ edits = <<>>
    /\ result = NoResult
    /\ iter = NoResult
    /\ BuilderIdle

CheckFixed ==
    /\ pc = "fixed"
    /\ fixed.ok
    /\ rechecked' = check_with_config(fixed.val, conf, build)
    /\ pc' = "rechecked"
    /\ UNCHANGED <<doc, conf, build, checked, fixed, refixed>>
    /\ UNCHANGED edit_vars
    /\ UNCHANGED builder_vars

NextCapitalisation == CheckWithConfig \/ FixWithConfig \/ CheckFixed

SpecCapitalisation == InitCapitalisation /\ [][NextCapitalisation]_vars

(***************************************************************************)
(* The case functions of the capitalisation rule on their own: a keyword   *)
(* text is rewritten by apply_case under a resolved policy, as check()     *)
(* does for its fix, and the rule's predicate is_correct_case is asked     *)
(* about the text written.  A keyword is a word of ASCII letters and       *)
(* underscores that starts with a letter.                                  *)
(***************************************************************************)
Letters == {97, 65, 90}
WordBytes == Letters \cup {95}

RECURSIVE KeywordTextsOfLen(_)
KeywordTextsOfLen(n) ==
    IF n = 1 THEN {<<c>> : c \in Letters}
    ELSE {Append(t, c) : t \in KeywordTextsOfLen(n - 1), c \in WordBytes}

KeywordTexts == UNION {KeywordTextsOfLen(n) : n \in 1..MaxKeywordLen}
ResolvedPolicies == Policies \ {"Consistent"}

policy_of(config) == config.lints.inconsistent_capitalisation.options.capitalisation_policy

InitKeywordCase ==
    /\ pc = "input"
    /\ text \in KeywordTexts
    /\ conf \in {c \in CapitalisationOnlyConfigs :
                    /\ policy_of(c) \in ResolvedPolicies
                    /\ c.lints.inconsistent_capitalisation.options.ignore_words = <<>>
                    /\ c.lints.inconsistent_capitalisation.options.ignore_words_regex
                           = <<>>}
    /\ edits = <<>>
    /\ result = NoResult
    /\ iter = NoResult
    /\ doc = <<>>
    /\ build = {}
    /\ checked = NotChecked
    /\ fixed = NoResult
    /\ refixed = NoResult
    /\ rechecked = NotChecked
    /\ BuilderIdle

ApplyCase ==
    /\ pc = "input"
    /\ result' = Ok(apply_case(text, policy_of(conf)))
    /\ pc' = "cased"
    /\ UNCHANGED <<text, edits, iter>>
    /\ UNCHANGED pipeline_vars
    /\ UNCHANGED builder_vars

IsCorrectCase ==
    /\ pc = "cased"
    /\ iter' = [ok |-> is_correct_case(result.val, policy_of(conf)),
                val |-> result.val, err |-> "None"]
    /\ pc' = "judged"
    /\ UNCHANGED <<text, edits, result>>
    /\ UNCHANGED pipeline_vars
    /\ UNCHANGED builder_vars

NextKeywordCase == ApplyCase \/ IsCorrectCase

SpecKeywordCase == InitKeywordCase /\ [][NextKeywordCase]_vars

(***************************************************************************)
(* The rules on the documents of the specification's scenarios and their   *)
(* neighbours, under every dialect: the caller checks a document and       *)
(* applies the fixes.                                                      *)
(***************************************************************************)
CapitalisationWords ==
    {<<sel, w_a, frm, w_t>> : sel \in {w_select, w_SELECT, w_Select}, frm \in {w_from, w_FROM}}
UnionWords ==
    {<<w_select, w_1>> \o op \o <<w_select, w_2>> :
        op \in {<<w_union>>, <<w_UNION>>, <<w_Union>>, <<w_union, w_all>>,
                <<w_UNION, w_distinct>>, <<w_intersect>>}}
        \cup {<<w_select, w_1, w_Union, w_select, w_2, w_union, w_ALL, w_select, w_2>>}
NameWords ==
    {<<w_select, name, w_from, w_t>> :
        name \in {w_forbidden, w_FORBIDDEN, w_quoted_forbidden, w_quoted_Forbidden,
                  w_ticked_forbidden, w_bracketed_forbidden, w_mismatched_forbidden,
                  w_twice_quoted_forbidden, w_empty_quotes, w_one_quote, w_t_e_acute}}
LintSources == {Join(words) : words \in CapitalisationWords \cup UnionWords \cup NameWords}

DisallowedNames ==
    {[level |-> "Warn", options |-> [names |-> <<>>, regexes |-> <<>>]],
     [level |-> "Warn", options |-> [names |-> <<w_forbidden>>, regexes |-> <<>>]],
     [level |-> "Error", options |-> [names |-> <<w_a, w_FORBIDDEN>>, regexes |-> <<w_t>>]]}

LintConfigs ==
    {[core |-> [dialect |-> dialect],
      lints |-> [disallow_names |-> dn,
                 explicit_union |-> [level |-> eu],
                 inconsistent_capitalisation |->
                     [level |-> ic.level,
                      options |-> [capitalisation_policy |-> ic.policy,
                                   ignore_words |-> <<>>,
                                   ignore_words_regex |-> <<>>]]]] :
        dialect \in AllDialects,
        dn \in DisallowedNames,
        eu \in {"Warn", "Allow"},
        ic \in {[level |-> "Allow", policy |-> "Consistent"],
                [level |-> "Warn", policy |-> "Consistent"],
                [level |-> "Warn", policy |-> "Upper"]}}

InitLints ==
    /\ pc = "input"
    /\ doc \in LintSources
    /\ conf \in LintConfigs
    /\ build = AllDialects
    /\ checked = NotChecked
    /\ fixed = NoResult
    /\ refixed = NoResult
    /\ rechecked = NotChecked
    /\ text = <<>>
    /\ edits = <<>>
    /\ result = NoResult
    /\ iter = NoResult
    /\ BuilderIdle

NextLints == CheckWithConfig \/ FixWithConfig

SpecLints == InitLints /\ [][NextLints]_vars

(***************************************************************************)
(* The pipeline behind a lexer that also ends a token where a keyword      *)
(* ends, so that a keyword can be followed by the next token with no       *)
(* trivia between them (1union, unionselect).  The lexer is external; this *)
(* second stand-in differs from lex_str only in that.  The documents are   *)
(* one union of two SELECTs, with and without the spaces around and inside *)
(* the set operator.                                                        *)
(***************************************************************************)
KeywordsAt(src, i) ==
    {k \in KeywordsUpper :
        /\ i + Len(k) <= Len(src)
        /\ to_ascii_uppercase(Slice(src, i, i + Len(k))) = k}

UnspacedEnd(src, i) ==
    IF src[i + 1] = 32 THEN RunEnd(src, i)
    ELSE IF KeywordsAt(src, i) # {} THEN i + Len(CHOOSE k \in KeywordsAt(src, i) : TRUE)
    ELSE i + 1

RECURSIVE lex_unspaced_from(_, _)
lex_unspaced_from(src, i) ==
    IF i >= Len(src) THEN <<>>
    ELSE <<[tok |-> LexToken(Slice(src, i, UnspacedEnd(src, i))),
            start |-> i, end |-> UnspacedEnd(src, i)]>>
             \o lex_unspaced_from(src, UnspacedEnd(src, i))

lex_unspaced(src) == lex_spans(lex_unspaced_from(src, 0))

Gaps == {<<>>, SpaceByte}
UnspacedOperators ==
    {w_union, w_UNION, w_Union}
        \cup {w_union \o gap \o all : gap \in Gaps, all \in {w_all, w_ALL}}
UnspacedSources ==
    {w_select \o SpaceByte \o w_1 \o before \o op \o after \o w_select \o SpaceByte \o w_2 :
        before \in Gaps, op \in UnspacedOperators, after \in Gaps}

InitUnspaced ==
    /\ pc = "input"
    /\ doc \in UnspacedSources
    /\ conf \in LintConfigs
    /\ build = AllDialects
    /\ checked = NotChecked
    /\ fixed = NoResult
    /\ refixed = NoResult
    /\ rechecked = NotChecked
    /\ text = <<>>
    /\ edits = <<>>
    /\ result = NoResult
    /\ iter = NoResult
    /\ BuilderIdle

CheckUnspaced ==
    /\ pc = "input"
    /\ checked' = check_parsed(parse_lexed(doc, lex_unspaced(doc)), config_dialect(conf), conf)
    /\ pc' = "checked"
    /\ UNCHANGED <<doc, conf, build, fixed, refixed, rechecked>>
    /\ UNCHANGED edit_vars
    /\ UNCHANGED builder_vars

FixUnspaced ==
    /\ pc = "checked"
    /\ fixed' = fix_parsed(doc, conf, parse_lexed(doc, lex_unspaced(doc)))
    /\ pc' = "fixed"
    /\ UNCHANGED <<doc, conf, build, checked, refixed, rechecked>>
    /\ UNCHANGED edit_vars
    /\ UNCHANGED builder_vars

NextUnspaced == CheckUnspaced \/ FixUnspaced

SpecUnspaced == InitUnspaced /\ [][NextUnspaced]_vars

(***************************************************************************)
(* parse as a state machine, with the parser as its environment: the       *)
(* source is lexed, the parser hands the sink any sequence of events over  *)
(* the lexed tokens (nodes entered and left, the tokens in order, meta     *)
(* tokens of no length in between) and then returns, fails or panics; a    *)
(* panic raised by the sink itself unwinds through the parser.  The caller *)
(* then reads the tree: the walk, token_at_offset and covering_element.    *)
(***************************************************************************)
BuilderSources == {<<97>>, <<97, 32>>, <<32, 97, 32>>, <<97, 32, 98>>}
NodeKinds == {"File", "SelectStatement"}

lexed == lex_str(sink.text).tokens
\* what the parser has handed over so far: the number of events, the number
\* of lexed tokens, and for each event its kind, the token if it is one, and
\* the node that was open when it arrived
Received(events, tokens, log) == [events |-> events, tokens |-> tokens, log |-> log]
TopFrame(b) == IF b.opened = <<>> THEN NoParent ELSE Last(b.opened).id
Arrival(type, token) == [type |-> type, token |-> token, top |-> TopFrame(sink)]

InitBuilder ==
    /\ pc = "parsing"
    /\ \E sql \in BuilderSources : sink = new_rootless_with_caps(sql)
    /\ fed = Received(0, 0, <<>>)
    /\ built = NoTree
    /\ asked = NotAsked
    /\ text = <<>>
    /\ edits = <<>>
    /\ result = NoResult
    /\ iter = NoResult
    /\ PipelineIdle

ParserRuns == pc = "parsing" /\ sink.panic = "none" /\ fed.events < MaxEvents

ParserEntersNode ==
    /\ ParserRuns
    /\ \E kind \in NodeKinds :
           /\ (kind = "File") = (sink.nodes = <<>>)
           /\ sink.nodes # <<>> => sink.opened # <<>>
           /\ sink' = enter_node(sink, kind)
    /\ fed' = Received(fed.events + 1, fed.tokens,
                       Append(fed.log, Arrival("enter_node", EndOfFileToken)))
    /\ UNCHANGED <<pc, built, asked>>
    /\ UNCHANGED edit_vars
    /\ UNCHANGED pipeline_vars

ParserExitsNode ==
    /\ ParserRuns
    /\ sink.opened # <<>>
    /\ sink' = exit_node(sink)
    /\ fed' = Received(fed.events + 1, fed.tokens,
                       Append(fed.log, Arrival("exit_node", EndOfFileToken)))
    /\ UNCHANGED <<pc, built, asked>>
    /\ UNCHANGED edit_vars
    /\ UNCHANGED pipeline_vars

ParserHandsToken ==
    /\ ParserRuns
    /\ sink.opened # <<>>
    /\ fed.tokens < Len(lexed)
    /\ sink' = on_token(sink, lexed[fed.tokens + 1])
    /\ fed' = Received(fed.events + 1, fed.tokens + 1,
                       Append(fed.log, Arrival("token", lexed[fed.tokens + 1])))
    /\ UNCHANGED <<pc, built, asked>>
    /\ UNCHANGED edit_vars
    /\ UNCHANGED pipeline_vars

ParserHandsMeta ==
    /\ ParserRuns
    /\ sink.opened # <<>>
    /\ sink' = on_token(sink, EndOfFileToken)
    /\ fed' = Received(fed.events + 1, fed.tokens,
                       Append(fed.log, Arrival("token", EndOfFileToken)))
    /\ UNCHANGED <<pc, built, asked>>
    /\ UNCHANGED edit_vars
    /\ UNCHANGED pipeline_vars

ParserReturnsOk ==
    /\ pc = "parsing"
    /\ sink.panic = "none"
    /\ built' = parse_driven([outcome |-> "ok", sink |-> sink])
    /\ pc' = "parsed"
    /\ UNCHANGED <<sink, fed, asked>>
    /\ UNCHANGED edit_vars
    /\ UNCHANGED pipeline_vars

ParserReturnsErr ==
    /\ pc = "parsing"
    /\ sink.panic = "none"
    /\ built' = parse_driven([outcome |-> "error", sink |-> sink])
    /\ sink' = abandon(sink)
    /\ pc' = "abandoned"
    /\ UNCHANGED <<fed, asked>>
    /\ UNCHANGED edit_vars
    /\ UNCHANGED pipeline_vars

\* the sink as catch_unwind leaves it: with the parser's panic, or its own
Unwinding(b) == IF b.panic = "none" THEN Panicked(b, "parser panicked") ELSE b

ParserPanics ==
    /\ pc = "parsing"
    /\ built' = parse_driven([outcome |-> "panic", sink |-> Unwinding(sink)])
    /\ sink' = abandon(Unwinding(sink))
    /\ pc' = "abandoned"
    /\ UNCHANGED <<fed, asked>>
    /\ UNCHANGED edit_vars
    /\ UNCHANGED pipeline_vars

Asked(query, node, range, answer) ==
    [query |-> query, node |-> node, range |-> range, answer |-> answer]

TreeNodes(t) == 0..(Len(t.nodes) - 1)
Offsets(t) == 0..(Len(t.text) + 1)

\* token_at_offset, and what the two biased readings make of its answer
Biased(at) == [at |-> at, right_biased |-> right_biased(at), left_biased |-> left_biased(at)]

Walk ==
    /\ pc = "parsed"
    /\ built.ok
    /\ asked' = Asked("descendants_with_tokens", 0, [start |-> 0, end |-> 0],
                      descendants_with_tokens(built.tree))
    /\ pc' = "asked"
    /\ UNCHANGED <<sink, fed, built>>
    /\ UNCHANGED edit_vars
    /\ UNCHANGED pipeline_vars

AskTokenAtOffset ==
    /\ pc = "parsed"
    /\ built.ok
    /\ \E node \in TreeNodes(built.tree), offset \in Offsets(built.tree) :
           asked' = Asked("token_at_offset", node, [start |-> offset, end |-> offset],
                          Biased(token_at_offset(built.tree, node, offset)))
    /\ pc' = "asked"
    /\ UNCHANGED <<sink, fed, built>>
    /\ UNCHANGED edit_vars
    /\ UNCHANGED pipeline_vars

AskCoveringElement ==
    /\ pc = "parsed"
    /\ built.ok
    /\ \E node \in TreeNodes(built.tree), start \in Offsets(built.tree),
          end \in Offsets(built.tree) :
           /\ start <= end
           /\ asked' = Asked("covering_element", node, [start |-> start, end |-> end],
                             covering_element(built.tree, node,
                                              [start |-> start, end |-> end]))
    /\ pc' = "asked"
    /\ UNCHANGED <<sink, fed, built>>
    /\ UNCHANGED edit_vars
    /\ UNCHANGED pipeline_vars

NextBuilder ==
    \/ ParserEntersNode \/ ParserExitsNode \/ ParserHandsToken \/ ParserHandsMeta
    \/ ParserReturnsOk \/ ParserReturnsErr \/ ParserPanics
    \/ Walk \/ AskTokenAtOffset \/ AskCoveringElement

SpecBuilder == InitBuilder /\ [][NextBuilder]_vars

\* The builder part way through a parse: the parser has entered File, entered
\* a statement, handed over the first lexed token and exited the statement.
\* SpecNesting starts there, so that within MaxEvents further events the
\* parser can close a second statement next to the first, with nodes nested
\* inside it; fed counts the events from that point on.
StatementClosed(sql) ==
    exit_node(on_token(enter_node(enter_node(new_rootless_with_caps(sql), "File"),
                                  "SelectStatement"),
                       lex_str(sql).tokens[1]))

InitNesting ==
    /\ pc = "parsing"
    /\ \E sql \in BuilderSources :
           /\ StatementClosed(sql).panic = "none"
           /\ sink = StatementClosed(sql)
    /\ fed = Received(0, 1, <<>>)
    /\ built = NoTree
    /\ asked = NotAsked
    /\ text = <<>>
    /\ edits = <<>>
    /\ result = NoResult
    /\ iter = NoResult
    /\ PipelineIdle

NextNesting ==
    \/ ParserEntersNode \/ ParserExitsNode \/ ParserHandsToken \/ ParserHandsMeta
    \/ ParserReturnsOk \/ ParserReturnsErr \/ ParserPanics

SpecNesting == InitNesting /\ [][NextNesting]_vars

\* The builder goes out of scope while the parser is still driving it, with
\* neither finish nor abandon called: its destructor runs, during a panic's
\* unwinding or not.  A builder that has itself panicked is dropped unwinding.
DropBuilder ==
    /\ pc = "parsing"
    /\ \E panicking \in BOOLEAN :
           /\ sink.panic # "none" => panicking
           /\ asked' = [query |-> "drop", panicking |-> panicking,
                        answer |-> drop(sink, panicking)]
    /\ pc' = "dropped"
    /\ UNCHANGED <<sink, fed, built>>
    /\ UNCHANGED edit_vars
    /\ UNCHANGED pipeline_vars

NextDrop ==
    \/ ParserEntersNode \/ ParserExitsNode \/ ParserHandsToken \/ ParserHandsMeta
    \/ ParserReturnsOk \/ ParserReturnsErr \/ ParserPanics
    \/ DropBuilder

SpecDrop == InitBuilder /\ [][NextDrop]_vars

\* The builder holding trivia runs of up to one more token than trivia_len
\* can count.  The parser has entered File and handed over a run of one-byte
\* whitespace tokens, then possibly the word a and a second run; nothing has
\* been flushed yet.  SpecTriviaRun continues with the events that flush.
RunLengths == {0, 1, 2, u16_MAX + 1}
Spaces(n) == [k \in 1..n |-> 32]
TriviaItems(n) == [k \in 1..n |-> [kind |-> "Whitespace", text_len |-> 1]]
WordPending == <<[kind |-> "Word", text_len |-> 1]>>
RunsHeld(leading, pending, trailing) ==
    [enter_node(new_rootless_with_caps(
                    Spaces(leading) \o [k \in 1..Len(pending) |-> 97] \o Spaces(trailing)),
                "File")
        EXCEPT !.leading = TriviaItems(leading), !.pending = pending,
               !.trailing = TriviaItems(trailing)]

InitTriviaRun ==
    /\ pc = "parsing"
    /\ \E leading \in RunLengths, trailing \in RunLengths, pending \in {<<>>, WordPending} :
           /\ pending = <<>> => trailing = 0
           /\ sink = RunsHeld(leading, pending, trailing)
    /\ fed = Received(0, 0, <<>>)
    /\ built = NoTree
    /\ asked = NotAsked
    /\ text = <<>>
    /\ edits = <<>>
    /\ result = NoResult
    /\ iter = NoResult
    /\ PipelineIdle

NextTriviaRun ==
    \/ ParserEntersNode \/ ParserExitsNode \/ ParserHandsMeta
    \/ ParserReturnsOk \/ ParserReturnsErr \/ ParserPanics

SpecTriviaRun == InitTriviaRun /\ [][NextTriviaRun]_vars

(***************************************************************************)
(* The pre-order walk as an iterator that its caller steps: Preorder and   *)
(* PreorderWithTokens.  The iterator is [stack, root]: root is an Option   *)
(* holding the start node until the first call of next, and each entry of  *)
(* the stack is an entered node with its children not yet visited.  The    *)
(* trees are finished by the builder from a few event lists, with sibling  *)
(* nodes, nodes nested three deep and tokens before and after child nodes. *)
(***************************************************************************)
MaxLaterCalls == 2

WalkEnterNode(node) == [type |-> "EnterNode", id |-> node]
WalkLeaveNode(node) == [type |-> "LeaveNode", id |-> node]
WalkToken(token) == [type |-> "Token", id |-> token]

PreorderWithTokens_new(start) == [stack |-> <<>>, root |-> <<start>>]

Stepped(it, item) == [it |-> it, item |-> item, panic |-> "none"]

\* a variant that enters a child node without advancing over it
PreorderWithTokens_next_child_kept(tree, it) ==
    IF it.root # <<>>
    THEN Stepped([stack |-> Append(it.stack,
                                   [node |-> it.root[1],
                                    rest |-> children_with_tokens(tree, it.root[1])]),
                  root |-> <<>>],
                 <<WalkEnterNode(it.root[1])>>)
    ELSE IF it.stack = <<>> THEN Stepped(it, <<>>)
    ELSE LET active == Last(it.stack) IN
         IF active.rest = <<>>
         THEN Stepped([it EXCEPT !.stack = Front(it.stack)], <<WalkLeaveNode(active.node)>>)
         ELSE IF Head(active.rest).is_node
         THEN Stepped([it EXCEPT !.stack =
                          Append(it.stack,
                                 [node |-> Head(active.rest).id,
                                  rest |-> children_with_tokens(tree, Head(active.rest).id)])],
                      <<WalkEnterNode(Head(active.rest).id)>>)
         ELSE Stepped([it EXCEPT !.stack[Len(it.stack)].rest = Tail(active.rest)],
                      <<WalkToken(Head(active.rest).id)>>)

PreorderWithTokens_next(tree, it) ==
    IF it.root # <<>>
    THEN Stepped([stack |-> Append(it.stack,
                                   [node |-> it.root[1],
                                    rest |-> children_with_tokens(tree, it.root[1])]),
                  root |-> <<>>],
                 <<WalkEnterNode(it.root[1])>>)
    ELSE IF it.stack = <<>> THEN Stepped(it, <<>>)
    ELSE LET active == Last(it.stack)
             advanced == [it.stack EXCEPT ![Len(it.stack)].rest = Tail(active.rest)]
         IN IF active.rest = <<>>
            THEN Stepped([it EXCEPT !.stack = Front(it.stack)],
                         <<WalkLeaveNode(active.node)>>)
            ELSE IF Head(active.rest).is_node
            THEN Stepped([it EXCEPT !.stack =
                             Append(advanced,
                                    [node |-> Head(active.rest).id,
                                     rest |-> children_with_tokens(tree,
                                                                   Head(active.rest).id)])],
                         <<WalkEnterNode(Head(active.rest).id)>>)
            ELSE Stepped([it EXCEPT !.stack = advanced], <<WalkToken(Head(active.rest).id)>>)

\* a variant that leaves the entered node on the stack
PreorderWithTokens_skip_subtree_keeps_frame(it) ==
    IF it.stack = <<>> THEN [Stepped(it, <<>>) EXCEPT !.panic = "must have a subtree to skip"]
    ELSE Stepped(it, <<>>)

PreorderWithTokens_skip_subtree(it) ==
    IF it.stack = <<>> THEN [Stepped(it, <<>>) EXCEPT !.panic = "must have a subtree to skip"]
    ELSE Stepped([it EXCEPT !.stack = Front(it.stack)], <<>>)

\* Preorder::next: find_map over the inner walk, passing over the tokens
RECURSIVE Preorder_next(_, _)
Preorder_next(tree, it) ==
    LET inner == PreorderWithTokens_next(tree, it) IN
    IF inner.item # <<>> /\ inner.item[1].type = "Token" THEN Preorder_next(tree, inner.it)
    ELSE inner

WalkWord(raw) == Token(LexToken(raw))
WalkEventLists ==
    {<<EnterNode("File"), WalkWord(w_a), ExitNode("File")>>,
     <<EnterNode("File"),
           EnterNode("SelectStatement"), WalkWord(w_a), ExitNode("SelectStatement"),
           WalkWord(SpaceByte),
           EnterNode("SetOperator"), WalkWord(w_b), ExitNode("SetOperator"),
       ExitNode("File")>>,
     <<EnterNode("File"),
           EnterNode("SelectStatement"),
               WalkWord(w_a),
               EnterNode("Expression"), WalkWord(w_b), ExitNode("Expression"),
               WalkWord(w_t),
           ExitNode("SelectStatement"),
           EnterNode("SelectStatement"), WalkWord(w_1), ExitNode("SelectStatement"),
           Token(EndOfFileToken),
       ExitNode("File")>>,
     <<EnterNode("File"),
           EnterNode("SelectStatement"),
               EnterNode("Expression"),
                   EnterNode("Expression"), WalkWord(w_a), ExitNode("Expression"),
               ExitNode("Expression"),
               EnterNode("Expression"), WalkWord(w_b), ExitNode("Expression"),
           ExitNode("SelectStatement"),
       ExitNode("File")>>}

RECURSIVE EventsText(_)
EventsText(events) ==
    IF events = <<>> THEN <<>>
    ELSE (IF Head(events).type = "token" THEN Head(events).token.raw ELSE <<>>)
             \o EventsText(Tail(events))

WalkTrees ==
    {parse_driven(drive_sink(new_rootless_with_caps(EventsText(events)), events, 1)) :
        events \in WalkEventLists}

Walking(query, start, it, log, nones, skipped) ==
    [query |-> query, node |-> start, it |-> it, log |-> log, nones |-> nones,
     skipped |-> skipped]

InitWalk ==
    /\ pc = "walking"
    /\ built \in WalkTrees
    /\ \E start \in TreeNodes(built.tree), query \in {"preorder", "preorder_with_tokens"} :
           asked = Walking(query, start, PreorderWithTokens_new(start), <<>>, 0, {})
    /\ sink = NoSink
    /\ fed = 0
    /\ text = <<>>
    /\ edits = <<>>
    /\ result = NoResult
    /\ iter = NoResult
    /\ PipelineIdle

WalkStep(stepped) ==
    asked' = [asked EXCEPT !.it = stepped.it,
                           !.log = @ \o stepped.item,
                           !.nones = IF stepped.item = <<>> THEN @ + 1 ELSE @]

\* the caller asks for the next event; after the walk has ended it asks again
\* up to MaxLaterCalls times
WalkNext ==
    /\ pc = "walking"
    /\ asked.nones <= MaxLaterCalls
    /\ WalkStep(IF asked.query = "preorder" THEN Preorder_next(built.tree, asked.it)
                ELSE PreorderWithTokens_next(built.tree, asked.it))
    /\ UNCHANGED <<pc, sink, fed, built>>
    /\ UNCHANGED edit_vars
    /\ UNCHANGED pipeline_vars

\* the caller skips the subtree of the node that the walk has just entered,
\* or calls skip_subtree on a walk that has ended
\* (recorded in skipped as NoParent)
WalkSkipsSubtree ==
    /\ pc = "walking"
    /\ \/ asked.log # <<>> /\ Last(asked.log).type = "EnterNode" /\ asked.nones = 0
          /\ Last(asked.log).id \notin asked.skipped
       \/ asked.nones > 0
    /\ LET stepped == PreorderWithTokens_skip_subtree(asked.it) IN
           /\ asked' = [asked EXCEPT !.it = stepped.it,
                                     !.skipped = IF asked.nones = 0
                                                 THEN @ \cup {Last(asked.log).id}
                                                 ELSE @ \cup {NoParent}]
           /\ pc' = IF stepped.panic = "none" THEN "walking" ELSE "panicked"
    /\ UNCHANGED <<sink, fed, built>>
    /\ UNCHANGED edit_vars
    /\ UNCHANGED pipeline_vars

NextWalk == WalkNext \/ WalkSkipsSubtree

SpecWalk == InitWalk /\ [][NextWalk]_vars

(***************************************************************************)
(* The language-server backend on one URI.  The server runs the handlers   *)
(* of the notifications it receives concurrently; a handler gives way at   *)
(* each await, so the steps of one handler interleave with the steps of    *)
(* the others.  documents is the entry of the document store for the URI   *)
(* (empty: no entry), handlers the handlers started so far in the order    *)
(* the notifications were received, published the last diagnostics the     *)
(* client was sent for the URI.                                            *)
(***************************************************************************)
MaxNotifications == 3

LspTexts ==
    {Join(<<w_SELECT, w_a, w_FROM, w_t>>), Join(<<w_select, w_a, w_from, w_t>>)}

LspConfig ==
    [core |-> [dialect |-> "Ansi"],
     lints |-> [disallow_names |-> [level |-> "Warn",
                                    options |-> [names |-> <<>>, regexes |-> <<>>]],
                explicit_union |-> [level |-> "Warn"],
                inconsistent_capitalisation |->
                    [level |-> "Warn",
                     options |-> [capitalisation_policy |-> "Upper",
                                  ignore_words |-> <<>>,
                                  ignore_words_regex |-> <<>>]]]]

\* the notifications of the client: a did_change carries a list of content
\* changes, a did_save the text or none
Notifications ==
    {[method |-> "did_open", text |-> <<t>>] : t \in LspTexts}
        \cup {[method |-> "did_change", text |-> <<t>>] : t \in LspTexts}
        \cup {[method |-> "did_change", text |-> <<>>]}
        \cup {[method |-> "did_save", text |-> <<t>>] : t \in LspTexts}
        \cup {[method |-> "did_save", text |-> <<>>]}
        \cup {[method |-> "did_close", text |-> <<>>]}

lsp_severity(severity) ==
    CASE severity = "Error" -> <<"ERROR">>
      [] severity = "Warn" -> <<"WARNING">>
      [] severity = "Info" -> <<"INFORMATION">>
      [] severity = "Hint" -> <<"HINT">>
      [] severity = "Allow" -> <<>>

clamp_range(range, source_len) ==
    LET start == IF range.start < source_len THEN range.start ELSE source_len
        end == IF range.end < source_len THEN range.end ELSE source_len
    IN IF end < start THEN [start |-> start, end |-> start]
       ELSE [start |-> start, end |-> end]

\* the characters of the texts here are one byte long and one UTF-16 unit wide
RECURSIVE offset_to_position_from(_, _, _, _)
offset_to_position_from(t, limit, index, position) ==
    IF index >= Len(t) \/ index + 1 > limit THEN position
    ELSE offset_to_position_from(
             t, limit, index + 1,
             IF t[index + 1] = 10 THEN [line |-> position.line + 1, character |-> 0]
             ELSE IF t[index + 1] # 13
                  THEN [position EXCEPT !.character = @ + 1]
                  ELSE position)

offset_to_position(t, offset) ==
    offset_to_position_from(t, IF offset < Len(t) THEN offset ELSE Len(t), 0,
                            [line |-> 0, character |-> 0])

lsp_range(range, t) ==
    LET clamped == clamp_range(range, Len(t)) IN
    [start |-> offset_to_position(t, clamped.start),
     end |-> offset_to_position(t, clamped.end)]

to_lsp_diagnostic(diagnostic, t) ==
    LET severity == lsp_severity(diagnostic.severity) IN
    IF severity = <<>> THEN <<>>
    ELSE <<[range |-> lsp_range(diagnostic.range, t), severity |-> severity[1],
            code |-> diagnostic.code, source |-> "tidysql",
            message |-> diagnostic.message]>>

RECURSIVE filter_map_to_lsp(_, _)
filter_map_to_lsp(diagnostics, t) ==
    IF diagnostics = <<>> THEN <<>>
    ELSE to_lsp_diagnostic(Head(diagnostics), t) \o filter_map_to_lsp(Tail(diagnostics), t)

\* what Backend::publish_diagnostics sends for a text
lsp_diagnostics(t) ==
    filter_map_to_lsp(check_with_config(t, conf, build).diagnostics, t)

Backend(documents, handlers, published) ==
    [query |-> "lsp", documents |-> documents, handlers |-> handlers,
     published |-> published]

Handler(note, at, t) == [note |-> note, at |-> at, text |-> t]

\* where a handler first awaits
Started(note) ==
    CASE note.method = "did_open" -> Handler(note, "insert", note.text)
      [] note.method = "did_change" ->
             IF note.text = <<>> THEN Handler(note, "done", <<>>)
             ELSE Handler(note, "insert", note.text)
      [] note.method = "did_save" ->
             IF note.text = <<>> THEN Handler(note, "load_text", <<>>)
             ELSE Handler(note, "insert", note.text)
      [] note.method = "did_close" -> Handler(note, "remove", <<>>)

InitLsp ==
    /\ pc = "serving"
    /\ asked = Backend(<<>>, <<>>, <<>>)
    /\ doc = <<>>
    /\ conf = LspConfig
    /\ build = AllDialects
    /\ checked = NotChecked
    /\ fixed = NoResult
    /\ refixed = NoResult
    /\ rechecked = NotChecked
    /\ text = <<>>
    /\ edits = <<>>
    /\ result = NoResult
    /\ iter = NoResult
    /\ sink = NoSink
    /\ fed = 0
    /\ built = NoTree

LspStep(backend) ==
    /\ pc = "serving"
    /\ asked' = backend
    /\ UNCHANGED <<pc, sink, fed, built>>
    /\ UNCHANGED edit_vars
    /\ UNCHANGED pipeline_vars

\* the server receives a notification and polls its handler up to the first
\* await
Notified ==
    /\ Len(asked.handlers) < MaxNotifications
    /\ \E note \in Notifications :
           LspStep([asked EXCEPT !.handlers = Append(@, Started(note))])

\* did_save without a text: load_text takes the text of the store or else
\* reads the file, which may hold any text or may not be readable
LoadText ==
    \E h \in DOMAIN asked.handlers :
        /\ asked.handlers[h].at = "load_text"
        /\ \E loaded \in IF asked.documents # <<>> THEN {asked.documents}
                         ELSE {<<>>} \cup {<<t>> : t \in LspTexts} :
               LspStep([asked EXCEPT !.handlers[h] =
                            IF loaded = <<>> THEN Handler(@.note, "done", <<>>)
                            ELSE Handler(@.note, "insert", loaded)])

\* documents.write().await.insert(uri, text)
InsertDocument ==
    \E h \in DOMAIN asked.handlers :
        /\ asked.handlers[h].at = "insert"
        /\ LspStep([asked EXCEPT !.documents = asked.handlers[h].text,
                                 !.handlers[h].at = "publish"])

\* self.publish_diagnostics(uri, &text).await
PublishDiagnostics ==
    \E h \in DOMAIN asked.handlers :
        /\ asked.handlers[h].at = "publish"
        /\ LspStep([asked EXCEPT !.published = <<lsp_diagnostics(asked.handlers[h].text[1])>>,
                                 !.handlers[h].at = "done"])

\* did_close: documents.write().await.remove(&uri)
RemoveDocument ==
    \E h \in DOMAIN asked.handlers :
        /\ asked.handlers[h].at = "remove"
        /\ LspStep([asked EXCEPT !.documents = <<>>,
                                 !.handlers[h].at = "publish_empty"])

\* did_close: client.publish_diagnostics(uri, Vec::new(), None).await
PublishEmpty ==
    \E h \in DOMAIN asked.handlers :
        /\ asked.handlers[h].at = "publish_empty"
        /\ LspStep([asked EXCEPT !.published = <<<<>>>>,
                                 !.handlers[h].at = "done"])

NextLsp ==
    \/ Notified
    \/ LoadText
    \/ InsertDocument
    \/ PublishDiagnostics
    \/ RemoveDocument
    \/ PublishEmpty

SpecLsp == InitLsp /\ [][NextLsp]_vars

(***************************************************************************)
(* Vocabulary of the edit-applicator claims.  Sorted states the order      *)
(* "by range.start, equal starts in the caller's order" by counting the    *)
(* edits that come before each one, independently of how the code sorts.   *)
(***************************************************************************)
Perms(n) == {p \in [1..n -> 1..n] : \A i, j \in 1..n : i # j => p[i] # p[j]}

\* the place of the i-th listed edit in that order
Rank(es, i) ==
    1 + Cardinality({j \in DOMAIN es :
                        \/ es[j].start < es[i].start
                        \/ es[j].start = es[i].start /\ j < i})

Sorted(es) == [k \in 1..Len(es) |-> es[CHOOSE i \in DOMAIN es : Rank(es, i) = k]]

\* the cursor the walk holds when it reaches the k-th sorted edit
CursorAt(S, k) == IF k = 1 THEN 0 ELSE S[k - 1].end

Overlaps(S, k) == S[k].start < CursorAt(S, k)
PastEnd(t, S, k) == S[k].end > Len(t)
OffBoundary(t, S, k) ==
    ~is_char_boundary(t, S[k].start) \/ ~is_char_boundary(t, S[k].end)
Offending(t, S, k) == Overlaps(S, k) \/ PastEnd(t, S, k) \/ OffBoundary(t, S, k)

FirstOffending(t, S) ==
    CHOOSE k \in 1..Len(S) :
        Offending(t, S, k) /\ \A j \in 1..(k - 1) : ~Offending(t, S, j)

Called == pc = "applied"

(***************************************************************************)
(* C2, as claimed: whenever, after sorting the edits by range.start, some  *)
(* edit starts before the end of the edit preceding it, apply_edits        *)
(* returns Err(Overlap).                                                   *)
(***************************************************************************)
SomeOverlap(S) == \E k \in 2..Len(S) : Overlaps(S, k)

C2_OverlapAlwaysReported ==
    (Called /\ SomeOverlap(Sorted(edits))) => result = Err("Overlap")

(***************************************************************************)
(* C2, amended: in that case apply_edits returns an Err and no string; the *)
(* error is Overlap when every edit sorted before the first overlapping    *)
(* one is in bounds and on code-point boundaries, and otherwise the        *)
(* OutOfBounds or InvalidBoundary of the first edit that is not.           *)
(***************************************************************************)
FirstOverlap(S) ==
    CHOOSE k \in 2..Len(S) :
        Overlaps(S, k) /\ \A j \in 2..(k - 1) : ~Overlaps(S, j)

C2_OverlapNeverApplied ==
    LET S == Sorted(edits) IN
    (Called /\ SomeOverlap(S)) =>
        LET k == FirstOverlap(S)
            clean == \A j \in 1..(k - 1) : ~PastEnd(text, S, j) /\ ~OffBoundary(text, S, j)
        IN /\ ~result.ok
           /\ result.val = <<>>
           /\ clean => result = Err("Overlap")
           /\ ~clean => result.err \in {"OutOfBounds", "InvalidBoundary"}

\* the S6 shape: two edits in bounds, on boundaries, the second starting
\* inside the first, rejected with Overlap
C2_Witness ==
    /\ pc = "applied"
    /\ Len(text) = 2
    /\ Len(edits) = 2
    /\ edits[1].start = 0 /\ edits[1].end = 2
    /\ edits[2].start = 1 /\ edits[2].end = 2
    /\ is_char_boundary(text, 1)
    /\ result = Err("Overlap")

(***************************************************************************)
(* C3, as claimed: an edit list with two or more zero-length edits at the  *)
(* same offset is rejected with Err(Overlap).                              *)
(***************************************************************************)
TwoInsertsAtOneOffset(es) ==
    \E i, j \in DOMAIN es :
        /\ i # j
        /\ es[i].start = es[i].end
        /\ es[j].start = es[j].end
        /\ es[i].start = es[j].start

C3_SecondInsertIsOverlap ==
    (Called /\ TwoInsertsAtOneOffset(edits)) => result = Err("Overlap")

(***************************************************************************)
(* C4: the walk over the start-sorted edits fails at the first offending   *)
(* edit, with Overlap if it starts before the cursor, otherwise            *)
(* OutOfBounds if it ends past the text, otherwise InvalidBoundary; an     *)
(* edit list with no offending edit returns Ok.                            *)
(***************************************************************************)
C4_FirstOffendingDecides ==
    Called =>
        LET S == Sorted(edits) IN
        IF \E k \in 1..Len(S) : Offending(text, S, k)
        THEN LET k == FirstOffending(text, S) IN
             result = Err(IF Overlaps(S, k) THEN "Overlap"
                          ELSE IF PastEnd(text, S, k) THEN "OutOfBounds"
                          ELSE "InvalidBoundary")
        ELSE result.ok

\* the first offending edit both overlaps its predecessor and ends past the
\* text, and Overlap is what is reported
C4_Witness ==
    /\ pc = "applied"
    /\ Len(edits) = 2
    /\ LET S == Sorted(edits) IN
       /\ ~Offending(text, S, 1)
       /\ Overlaps(S, 2)
       /\ PastEnd(text, S, 2)
    /\ result = Err("Overlap")

(***************************************************************************)
(* C5, as claimed: for pairwise non-overlapping, in-bounds edits,          *)
(* apply_edits returns what iterated single-edit application returns.      *)
(***************************************************************************)
PairwiseDisjoint(es) ==
    \A i, j \in DOMAIN es :
        i # j => es[i].end <= es[j].start \/ es[j].end <= es[i].start

InBounds(t, es) == \A i \in DOMAIN es : es[i].end <= Len(t)

DistinctStarts(es) ==
    \A i, j \in DOMAIN es : i # j => es[i].start # es[j].start

C5_SameAsIterated ==
    (pc = "iterated" /\ PairwiseDisjoint(edits) /\ InBounds(text, edits))
        => result = iter

(***************************************************************************)
(* C5, amended: for pairwise non-overlapping, in-bounds edits with         *)
(* pairwise distinct starts, apply_edits returns what iterated             *)
(* single-edit application returns (the same string, or InvalidBoundary    *)
(* from both).                                                             *)
(***************************************************************************)
C5_SameAsIteratedDistinctStarts ==
    (/\ pc = "iterated"
     /\ PairwiseDisjoint(edits)
     /\ InBounds(text, edits)
     /\ DistinctStarts(edits))
        => /\ result = iter
           /\ result.ok \/ result.err = "InvalidBoundary"

\* two disjoint edits listed out of order, the first listed changing the
\* length of the text, both ways giving the same string
C5_Witness ==
    /\ pc = "iterated"
    /\ Len(edits) = 2
    /\ PairwiseDisjoint(edits) /\ InBounds(text, edits) /\ DistinctStarts(edits)
    /\ edits[1].start > edits[2].start
    /\ edits[2].end > edits[2].start
    /\ edits[2].replacement = <<>>
    /\ result.ok
    /\ result = iter
    /\ result.val # text

(***************************************************************************)
(* C6: apply_edits(text, []) returns text unchanged; otherwise an accepted *)
(* list yields the text with the edits spliced in, in ascending            *)
(* range.start order, edits with equal start in the caller's order; and    *)
(* for pairwise distinct starts the result (string or error) is the same   *)
(* for every order in which the caller lists the edits.                    *)
(***************************************************************************)
RECURSIVE Spliced(_, _)
Spliced(t, S) ==
    IF S = <<>> THEN t
    ELSE LET e == S[Len(S)] IN
         Spliced(Slice(t, 0, e.start), SubSeq(S, 1, Len(S) - 1))
             \o e.replacement \o Slice(t, e.end, Len(t))

Reordered(es, p) == [i \in 1..Len(es) |-> es[p[i]]]

C6_SortedOrderApplied ==
    Called =>
        /\ edits = <<>> => result = Ok(text)
        /\ result.ok => result.val = Spliced(text, Sorted(edits))
        /\ DistinctStarts(edits) =>
               \A p \in Perms(Len(edits)) :
                   apply_edits(text, Reordered(edits, p)) = result

\* two inserts at one offset, "X" listed before "Y": the result holds XY
C6_Witness ==
    /\ pc = "applied"
    /\ text = <<97, 97>>
    /\ edits = <<TextEdit(1, 1, <<88>>), TextEdit(1, 1, <<89>>)>>
    /\ result = Ok(<<97, 88, 89, 97>>)

(***************************************************************************)
(* Vocabulary of the pipeline claims.                                      *)
(***************************************************************************)
parsed == checked.parse
reported == checked.diagnostics
invoked == checked.calls
AfterCheck == pc = "checked"
AfterFix == pc = "fixed"

\* every edit of every fix among the diagnostics, in diagnostic order
RECURSIVE FixEdits(_)
FixEdits(ds) ==
    IF ds = <<>> THEN <<>>
    ELSE LET d == ds[Len(ds)] IN
         FixEdits(SubSeq(ds, 1, Len(ds) - 1))
             \o (IF d.fix = <<>> THEN <<>> ELSE d.fix[1].edits)

LevelOf(lint) == conf.lints[lint].level
LintCodes == {"explicit_union", "disallow_names", "inconsistent_capitalisation"}
SomeLintEnabled == \E lint \in LintCodes : LevelOf(lint) # "Allow"

\* the parser wrapped some part of the source in an Unparsable node
HasUnparsableNode ==
    /\ conf.core.dialect \in build
    /\ lex_str(doc).errors = <<>>
    /\ LET events == parse_with_sink(lex_str(doc).tokens) IN
       /\ \E k \in DOMAIN events :
              events[k].type = "enter_node" /\ events[k].kind = "Unparsable"
       /\ \A k \in DOMAIN events : events[k].type \notin {"error", "panic"}

\* C1: fix_with_config is idempotent: fixing the fixed text returns the
\* fixed text again.
C1_FixIsIdempotent == pc = "refixed" => refixed = fixed

\* C7: fix_with_config is all or nothing: a parse failure gives Err(Parse);
\* with no fix among the diagnostics the source comes back unchanged; and
\* otherwise either apply_edits rejects the edits and the call is
\* Err(Apply), or the text has every edit of every fix applied.
C7_FixIsAllOrNothing ==
    AfterFix =>
        LET wanted == FixEdits(reported) IN
        /\ ~parsed.ok => ~fixed.ok /\ fixed.err = "Parse"
        /\ (parsed.ok /\ wanted = <<>>) => fixed.ok /\ fixed.val = doc
        /\ (parsed.ok /\ wanted # <<>>) =>
               \/ ~fixed.ok /\ fixed.err = "Apply" /\ ~apply_edits(doc, wanted).ok
               \/ fixed.ok /\ fixed.val = Spliced(doc, Sorted(wanted))

C7_Witness ==
    /\ pc = "fixed"
    /\ Len(FixEdits(reported)) >= 3
    /\ fixed.ok
    /\ fixed.val # doc

\* C8: when the parse fails, check_with_config returns the parse
\* diagnostics only: one unknown_dialect, one lex_error per lex error, one
\* parse_error, one unparsable per Unparsable range, or one parser_panic;
\* each has severity Error and no fix, and no lint rule has run.  A source
\* with an Unparsable node is never linted.
C8_ParseFailureReportsOnlyParseErrors ==
    AfterCheck =>
        /\ ~parsed.ok =>
              /\ invoked = <<>>
              /\ \A k \in DOMAIN reported :
                     reported[k].severity = "Error" /\ reported[k].fix = <<>>
              /\ parsed.err = "UnknownDialect" =>
                     Len(reported) = 1 /\ reported[1].code = "unknown_dialect"
              /\ parsed.err = "Lex" =>
                     /\ Len(reported) = Len(lex_str(doc).errors)
                     /\ \A k \in DOMAIN reported : reported[k].code = "lex_error"
              /\ parsed.err = "Parse" =>
                     Len(reported) = 1 /\ reported[1].code = "parse_error"
              /\ parsed.err = "Unparsable" =>
                     /\ Len(reported) = Len(parsed.items)
                     /\ \A k \in DOMAIN reported :
                            /\ reported[k].code = "unparsable"
                            /\ reported[k].message = "Unparsable section."
                            /\ reported[k].range.start = parsed.items[k].start
                            /\ reported[k].range.end = parsed.items[k].end
              /\ parsed.err = "Panic" =>
                     Len(reported) = 1 /\ reported[1].code = "parser_panic"
        /\ HasUnparsableNode =>
              /\ invoked = <<>>
              /\ reported # <<>>
              /\ \A k \in DOMAIN reported : reported[k].code = "unparsable"

C8_Witness ==
    /\ pc = "checked"
    /\ HasUnparsableNode
    /\ SomeLintEnabled
    /\ contains(doc, w_union)
    /\ Len(reported) = 1
    /\ reported[1].code = "unparsable"

\* C9: a rule whose level is Allow is never invoked, no diagnostic that is
\* returned has severity Allow, and so the renderer never reaches its
\* unreachable arm.
C9_AllowSilencesRule ==
    AfterCheck =>
        /\ \A k \in DOMAIN invoked : LevelOf(invoked[k].lint) # "Allow"
        /\ \A k \in DOMAIN reported :
               /\ reported[k].severity # "Allow"
               /\ level_for_severity(reported[k].severity) # "unreachable"
               /\ reported[k].code \in LintCodes => LevelOf(reported[k].code) # "Allow"

C9_Witness ==
    /\ pc = "checked"
    /\ LevelOf("inconsistent_capitalisation") = "Allow"
    /\ LevelOf("explicit_union") # "Allow"
    /\ contains(doc, w_Select)
    /\ invoked # <<>>
    /\ \E k \in DOMAIN reported : reported[k].code = "explicit_union"

\* C10: the dispatcher's diagnostics are in source order; diagnostics at
\* one position are in registry order (the node rule at node entry, then
\* disallow_names, then capitalisation); and nothing is dropped, merged or
\* moved: the output is, element by element of the walk and rule by rule,
\* what each enabled rule reports for that element.
RegistryOrder == <<"explicit_union", "disallow_names", "inconsistent_capitalisation">>
RegistryRank(code) == CHOOSE k \in DOMAIN RegistryOrder : RegistryOrder[k] = code

ReportedAlone(lint, el) ==
    LET tree == parsed.tree
        ctx == [dialect |-> conf.core.dialect, tree |-> tree, config |-> conf]
        applies == IF lint = "explicit_union"
                   THEN el.is_node /\ node_data(tree, el.id).kind = "SetOperator"
                   ELSE IF lint = "disallow_names"
                        THEN ~el.is_node /\ disallow_names_matches(token_kind(tree, el.id))
                   ELSE ~el.is_node
                        /\ inconsistent_capitalisation_matches(token_kind(tree, el.id))
    IN IF LevelOf(lint) = "Allow" \/ ~applies THEN <<>>
       ELSE lint_check(lint, ctx, el, [diagnostics |-> <<>>, calls |-> <<>>]).diagnostics

RECURSIVE ReportedUpTo(_, _)
ReportedUpTo(elements, n) ==
    IF n = 0 THEN <<>>
    ELSE ReportedUpTo(elements, n - 1)
             \o ReportedAlone(RegistryOrder[1], elements[n])
             \o ReportedAlone(RegistryOrder[2], elements[n])
             \o ReportedAlone(RegistryOrder[3], elements[n])

C10_DiagnosticsInSourceOrder ==
    (AfterCheck /\ parsed.ok) =>
        /\ \A i, j \in DOMAIN reported :
               i < j =>
                   /\ reported[i].range.start <= reported[j].range.start
                   /\ reported[i].range = reported[j].range =>
                          RegistryRank(reported[i].code) <= RegistryRank(reported[j].code)
        /\ LET elements == descendants_with_tokens(parsed.tree) IN
           reported = ReportedUpTo(elements, Len(elements))

C10_Witness ==
    /\ pc = "checked"
    /\ Len(reported) >= 4
    /\ \E k \in DOMAIN reported :
           /\ k + 2 <= Len(reported)
           /\ reported[k].code = "explicit_union"
           /\ reported[k + 1].code = "disallow_names"
           /\ reported[k + 2].code = "inconsistent_capitalisation"
           /\ reported[k].range = reported[k + 1].range
           /\ reported[k].range = reported[k + 2].range

(***************************************************************************)
(* Vocabulary of the tree claims.  A tree is read after parse returned it, *)
(* and the parser has then handed over every token of the source.          *)
(***************************************************************************)
TreeReturned == pc \in {"parsed", "asked"} /\ built.ok
AllTokensHandedOver == fed.tokens = Len(lexed)

RECURSIVE Concat(_)
Concat(parts) == IF parts = <<>> THEN <<>> ELSE Head(parts) \o Concat(Tail(parts))

ChildTokens(t) == SelectSeq(descendants_with_tokens(t), LAMBDA el : ~el.is_node)
IsTriviaKind(kind) == kind = "Whitespace"
IsMetaKind(kind) == kind = "EndOfFile"

\* C11: the tree is lossless: when the parser has handed over every token of
\* the source and parse returns a tree, the root's range is the whole source
\* and the text_including_trivia of the child tokens, in the order of the
\* walk, concatenate to the source.
C11_TreeIsLossless ==
    (TreeReturned /\ AllTokensHandedOver) =>
        /\ node_text_range(built.tree, 0) = [start |-> 0, end |-> Len(built.tree.text)]
        /\ Concat([k \in 1..Len(ChildTokens(built.tree)) |->
                      text_including_trivia(built.tree, ChildTokens(built.tree)[k].id)])
               = built.tree.text

RealTokens(t) == 1..(Len(t.tokens) - 1)
EmittedTokens(t) == {id \in RealTokens(t) : ~IsTriviaKind(token_kind(t, id))}
TriviaRun(t, id) == leading_trivia(t, id) \o <<id>> \o trailing_trivia(t, id)
TriviaOf(t, id) ==
    {leading_trivia(t, id)[k] : k \in 1..Len(leading_trivia(t, id))}
        \cup {trailing_trivia(t, id)[k] : k \in 1..Len(trailing_trivia(t, id))}
ChildTokenIds(t) ==
    {t.node_children[k].id : k \in {j \in 1..Len(t.node_children) :
                                        ~t.node_children[j].is_node}}

\* C12: in a returned tree, for every emitted non-trivia token t, its leading
\* trivia, t and its trailing trivia are one contiguous slice of the tokens
\* vector: the trivia_len tokens before a token with has_leading_trivia, and
\* the run after a token with has_trailing_trivia whose length the first
\* trailing token records, are trivia tokens; none of them is in a node's
\* children list or in another token's trivia.
C12_TriviaIsContiguous ==
    TreeReturned =>
        \A id \in EmittedTokens(built.tree) :
            LET slice == TriviaRun(built.tree, id)
                data == built.tree.tokens[id + 1].attached_trivia
            IN /\ \A k \in 1..Len(slice) : slice[k] \in RealTokens(built.tree)
               /\ \A k \in 1..(Len(slice) - 1) : slice[k + 1] = slice[k] + 1
               /\ \A k \in 1..(Len(slice) - 1) :
                      token_end(built.tree, slice[k]) = token_start(built.tree, slice[k + 1])
               /\ \A tr \in TriviaOf(built.tree, id) :
                      /\ IsTriviaKind(token_kind(built.tree, tr))
                      /\ tr \notin ChildTokenIds(built.tree)
                      /\ \A other \in EmittedTokens(built.tree) \ {id} :
                             tr \notin TriviaOf(built.tree, other)
               /\ data.has_leading_trivia =>
                      /\ data.trivia_len >= 1
                      /\ Len(leading_trivia(built.tree, id)) = data.trivia_len
               /\ data.has_trailing_trivia =>
                      /\ Len(trailing_trivia(built.tree, id)) >= 1
                      /\ Len(trailing_trivia(built.tree, id))
                             = built.tree.tokens[id + 2].attached_trivia.trivia_len

\* a returned tree with a token that has both leading and trailing trivia
C12_Witness ==
    /\ TreeReturned
    /\ \E id \in EmittedTokens(built.tree) :
           /\ built.tree.tokens[id + 1].attached_trivia.has_leading_trivia
           /\ built.tree.tokens[id + 1].attached_trivia.has_trailing_trivia
           /\ Len(TriviaRun(built.tree, id)) = 3

\* the tokens that are children of a closed node or of an open frame of the sink
SinkChildTokenIds ==
    {sink.node_children[k].id :
        k \in {j \in 1..Len(sink.node_children) : ~sink.node_children[j].is_node}}
    \cup UNION {{sink.opened[f].children[k].id :
                    k \in {j \in 1..Len(sink.opened[f].children) :
                               ~sink.opened[f].children[j].is_node}} :
                f \in 1..Len(sink.opened)}

\* C13: after any sequence of events, and in the tree that parse returns,
\* every token in a children list is significant: it is neither trivia
\* (whitespace, comment) nor a meta token.
C13_OnlySignificantChildren ==
    /\ (pc = "parsing" /\ sink.panic = "none") =>
           \A id \in SinkChildTokenIds :
               /\ ~IsTriviaKind(sink.tokens[id + 1].kind)
               /\ ~IsMetaKind(sink.tokens[id + 1].kind)
    /\ TreeReturned =>
           \A id \in ChildTokenIds(built.tree) :
               /\ ~IsTriviaKind(token_kind(built.tree, id))
               /\ ~IsMetaKind(token_kind(built.tree, id))

Walked == pc = "asked" /\ asked.query = "descendants_with_tokens"
Yielded(el) == {k \in 1..Len(asked.answer) : asked.answer[k] = el}
YieldedTokens == SelectSeq(asked.answer, LAMBDA el : ~el.is_node)

\* C14: root.descendants_with_tokens() yields every node of the tree and every
\* child token exactly once, and nothing else, and the tokens come in
\* non-decreasing order of their byte start.
C14_WalkYieldsEachOnce ==
    Walked =>
        /\ \A id \in TreeNodes(built.tree) : Cardinality(Yielded(NodeRef(id))) = 1
        /\ \A id \in ChildTokenIds(built.tree) : Cardinality(Yielded(TokenRef(id))) = 1
        /\ \A k \in 1..Len(asked.answer) :
               IF asked.answer[k].is_node
               THEN asked.answer[k].id \in TreeNodes(built.tree)
               ELSE asked.answer[k].id \in ChildTokenIds(built.tree)
        /\ \A k \in 1..(Len(YieldedTokens) - 1) :
               token_start(built.tree, YieldedTokens[k].id)
                   <= token_start(built.tree, YieldedTokens[k + 1].id)

\* a walk of a tree with a nested node and at least three child tokens
C14_Witness ==
    /\ Walked
    /\ Len(built.tree.nodes) >= 2
    /\ Len(YieldedTokens) >= 3
    /\ \E k \in 1..Len(asked.answer) :
           /\ ~asked.answer[k].is_node
           /\ built.tree.tokens[asked.answer[k].id + 1].parent # 0

ElementStart(t, el) == IF el.is_node THEN node_start(t, el.id) ELSE token_start(t, el.id)
ElementParent(t, el) ==
    IF el.is_node THEN node_data(t, el.id).parent ELSE t.tokens[el.id + 1].parent

RECURSIVE NodeIsAncestorOrSelf(_, _, _)
NodeIsAncestorOrSelf(t, a, n) ==
    IF n = NoParent THEN FALSE
    ELSE IF n = a THEN TRUE
    ELSE NodeIsAncestorOrSelf(t, a, node_data(t, n).parent)

IsAncestor(t, a, b) == a.is_node /\ NodeIsAncestorOrSelf(t, a.id, ElementParent(t, b))

\* C15: in descendants_with_tokens, for any two distinct yielded elements a and
\* b, a is yielded before b if and only if a.start < b.start, or a.start =
\* b.start and a is an ancestor of b.
C15_WalkIsInSourceOrder ==
    Walked =>
        \A i, j \in 1..Len(asked.answer) :
            i # j =>
                ((i < j) <=>
                    \/ ElementStart(built.tree, asked.answer[i])
                           < ElementStart(built.tree, asked.answer[j])
                    \/ /\ ElementStart(built.tree, asked.answer[i])
                              = ElementStart(built.tree, asked.answer[j])
                       /\ IsAncestor(built.tree, asked.answer[i], asked.answer[j]))

AskedTokenAtOffset == pc = "asked" /\ asked.query = "token_at_offset"
ContainingTokens(t, offset) ==
    {id \in RealTokens(t) : token_start(t, id) <= offset /\ offset < token_end(t, id)}
\* the offset is where token id starts and a token lies directly before it
OnBoundary(t, id, offset) == offset = token_start(t, id) /\ id - 1 \in RealTokens(t)

\* C16: node.token_at_offset(offset) is Single(t) exactly when t is the token
\* whose range [start, end) holds the offset and the offset is not on the
\* boundary with the token before it, Between(left, right) exactly when the
\* offset is on the boundary of the adjacent tokens left and right, and None
\* when no token's range holds the offset; right_biased and left_biased pick
\* the right and the left token of a Between.
C16_TokenAtOffset ==
    AskedTokenAtOffset =>
        LET offset == asked.range.start
            at == asked.answer.at
            inside == ContainingTokens(built.tree, offset)
        IN /\ Cardinality(inside) <= 1
           /\ (at.variant = "Single") <=>
                  \E id \in inside : ~OnBoundary(built.tree, id, offset)
           /\ at.variant = "Single" => at.tokens[1] \in inside
           /\ (at.variant = "Between") <=>
                  \E id \in inside : OnBoundary(built.tree, id, offset)
           /\ at.variant = "Between" =>
                  /\ at.tokens[2] \in inside
                  /\ at.tokens[1] = at.tokens[2] - 1
                  /\ token_end(built.tree, at.tokens[1]) = offset
           /\ (at.variant = "None") <=> inside = {}
           /\ asked.answer.right_biased =
                  (IF at.variant = "None" THEN <<>> ELSE <<at.tokens[Len(at.tokens)]>>)
           /\ asked.answer.left_biased =
                  (IF at.variant = "None" THEN <<>> ELSE <<at.tokens[1]>>)

AskedCoveringElement == pc = "asked" /\ asked.query = "covering_element"
ElementRange(t, el) ==
    IF el.is_node THEN node_text_range(t, el.id) ELSE token_text_range(t, el.id)
InSubtree(t, n, el) == el = NodeRef(n) \/ IsAncestor(t, NodeRef(n), el)
ChildrenOf(t, el) ==
    IF el.is_node
    THEN {children_with_tokens(t, el.id)[k] : k \in 1..Len(children_with_tokens(t, el.id))}
    ELSE {}

\* C17: for a range contained in n.text_range(), empty ranges at n's start and
\* end included, n.covering_element(range) returns an element of n's subtree
\* whose range contains the range and none of whose children contains it; for
\* a range not contained in n it panics.
C17_CoveringElement ==
    AskedCoveringElement =>
        IF contains_range(node_text_range(built.tree, asked.node), asked.range)
        THEN /\ asked.answer.panic = "none"
             /\ InSubtree(built.tree, asked.node, asked.answer.el)
             /\ contains_range(ElementRange(built.tree, asked.answer.el), asked.range)
             /\ \A child \in ChildrenOf(built.tree, asked.answer.el) :
                    ~contains_range(ElementRange(built.tree, child), asked.range)
        ELSE asked.answer.panic # "none"

Abandoned == pc = "abandoned"
\* the nodes that were still open when the parser failed: never closed, they
\* have no first token
LeftOpen == {n \in 1..Len(sink.nodes) : sink.nodes[n].first_token = 0}
\* tokens handed over that the builder had not emitted when the parser failed
Unflushed == fed.tokens - (Len(sink.tokens) - 1)

\* C18: when the parser returns an error or panics, abandon() discards the
\* builder's open frames and its trivia state (pending, leading, trailing),
\* parse returns no tree but Err(Parse(error)) or Err(Panic(message)), and
\* the drop of the abandoned builder does not panic.
C18_ParserFailureIsAtomic ==
    Abandoned =>
        /\ sink.opened = <<>>
        /\ sink.pending = <<>> /\ sink.leading = <<>> /\ sink.trailing = <<>>
        /\ drop(sink, FALSE) = "none"
        /\ ~built.ok
        /\ built.tree = NoTree
        /\ IF sink.panic = "none" THEN built.err = "Parse"
           ELSE built.err = "Panic" /\ built.items[1].message = sink.panic

\* a parser panic with two nodes open and tokens that were not yet emitted
C18_Witness ==
    /\ Abandoned
    /\ built.err = "Panic"
    /\ sink.panic = "parser panicked"
    /\ Cardinality(LeftOpen) >= 2
    /\ Unflushed >= 2

(***************************************************************************)
(* Vocabulary of the capitalisation claims.                                *)
(***************************************************************************)
Rechecked == pc = "rechecked"
ByRule(diagnostics, code) == SelectSeq(diagnostics, LAMBDA d : d.code = code)
CapitalisationOptions == conf.lints.inconsistent_capitalisation.options

\* C19: when the fixes of the capitalisation rule have been applied to a
\* document, checking the result with the same configuration yields no
\* diagnostic of that rule, and a document that parses can always be fixed.
C19_CapitalisationFixIsFixpoint ==
    /\ Rechecked => ByRule(rechecked.diagnostics, "inconsistent_capitalisation") = <<>>
    /\ (AfterFix /\ parsed.ok) => fixed.ok

\* the policy is Consistent, an ignore list is set, and the fix rewrote at
\* least one keyword and left an ignored one that is not in the inferred case
C19_Witness ==
    /\ Rechecked
    /\ CapitalisationOptions.capitalisation_policy = "Consistent"
    /\ CapitalisationOptions.ignore_words # <<>>
    /\ Len(ByRule(reported, "inconsistent_capitalisation")) >= 1
    /\ fixed.val # doc
    /\ contains(fixed.val, w_union) /\ contains(fixed.val, w_SELECT)

Judged == pc = "judged"
NoUpperFrom(t, from) == \A i \in from..Len(t) : ~is_ascii_uppercase(t[i])
NoLower(t) == \A i \in 1..Len(t) : ~is_ascii_lowercase(t[i])

\* C20: for every keyword text and every resolved policy, the text that
\* apply_case writes is accepted by is_correct_case under the same policy:
\* under Upper it has no ASCII-lowercase byte, under Lower, Snake and Camel no
\* ASCII-uppercase byte, under Pascal and Capitalise its first byte is
\* ASCII-uppercase and no later byte is.
C20_AppliedCaseIsCorrect ==
    Judged =>
        /\ iter.ok
        /\ Len(result.val) = Len(text)
        /\ eq_ignore_ascii_case(result.val, text)
        /\ policy_of(conf) = "Upper" => NoLower(result.val)
        /\ policy_of(conf) \in {"Lower", "Snake", "Camel"} => NoUpperFrom(result.val, 1)
        /\ policy_of(conf) \in {"Pascal", "Capitalise"} =>
               /\ is_ascii_uppercase(result.val[1])
               /\ NoUpperFrom(result.val, 2)

\* a keyword of mixed case with an underscore, rewritten under Pascal
C20_Witness ==
    /\ Judged
    /\ policy_of(conf) = "Pascal"
    /\ text = <<97, 95, 90>>
    /\ result.val = <<65, 95, 122>>
    /\ iter.ok

(***************************************************************************)
(* Vocabulary of the claims about the inferred policy.                     *)
(***************************************************************************)
IsLowerLetter(c) == c \in 97..122
IsUpperLetter(c) == c \in 65..90
EntirelyUpper(t) == \A i \in 1..Len(t) : ~IsLowerLetter(t[i])
EntirelyLower(t) == \A i \in 1..Len(t) : ~IsUpperLetter(t[i])
\* the keyword tokens of a source, with their byte ranges
KeywordSpans(source) == SelectSeq(lex_from(source, 0), LAMBDA s : s.tok.kind = "Keyword")
UpperCount(source) ==
    Cardinality({k \in DOMAIN KeywordSpans(source) :
                    EntirelyUpper(KeywordSpans(source)[k].tok.raw)})
LowerCount(source) ==
    Cardinality({k \in DOMAIN KeywordSpans(source) :
                    EntirelyLower(KeywordSpans(source)[k].tok.raw)})
EffectivePolicy(source) ==
    IF UpperCount(source) >= LowerCount(source) THEN "Upper" ELSE "Lower"
InEffectiveCase(source, t) ==
    IF EffectivePolicy(source) = "Upper" THEN EntirelyUpper(t) ELSE EntirelyLower(t)
EffectiveMessage(source) ==
    <<"Keywords must be ",
      IF EffectivePolicy(source) = "Upper" THEN "uppercase" ELSE "lowercase", ".">>
Ignored(t) ==
    \/ \E k \in DOMAIN CapitalisationOptions.ignore_words :
           to_ascii_lowercase(CapitalisationOptions.ignore_words[k]) = to_ascii_lowercase(t)
    \/ \E k \in DOMAIN CapitalisationOptions.ignore_words_regex :
           contains(t, CapitalisationOptions.ignore_words_regex[k])
ConsistentChecked ==
    /\ AfterCheck
    /\ parsed.ok
    /\ CapitalisationOptions.capitalisation_policy = "Consistent"

\* C21: under policy Consistent the effective policy is Upper when at least
\* as many keywords of the document are entirely uppercase as are entirely
\* lowercase, and Lower otherwise; mixed-case keywords vote for neither, and
\* every keyword of the run is judged, described and rewritten by that one
\* policy.
C21_ConsistentPolicyIsInferred ==
    ConsistentChecked =>
        /\ \A k \in DOMAIN ByRule(reported, "inconsistent_capitalisation") :
               /\ ByRule(reported, "inconsistent_capitalisation")[k].message
                      = EffectiveMessage(doc)
               /\ InEffectiveCase(doc,
                      ByRule(reported, "inconsistent_capitalisation")[k].fix[1].edits[1].replacement)
        /\ \A k \in DOMAIN KeywordSpans(doc) :
               (\E j \in DOMAIN ByRule(reported, "inconsistent_capitalisation") :
                    ByRule(reported, "inconsistent_capitalisation")[j].range
                        = [start |-> KeywordSpans(doc)[k].start,
                           end |-> KeywordSpans(doc)[k].end])
               <=> (/\ ~Ignored(KeywordSpans(doc)[k].tok.raw)
                    /\ ~InEffectiveCase(doc, KeywordSpans(doc)[k].tok.raw))

\* a tie with a mixed-case keyword: one keyword entirely lowercase, one
\* entirely uppercase and one capitalised, resolved to Upper
C21_Witness ==
    /\ ConsistentChecked
    /\ UpperCount(doc) = 1 /\ LowerCount(doc) = 1
    /\ Len(KeywordSpans(doc)) = 3
    /\ Len(ByRule(reported, "inconsistent_capitalisation")) = 2

\* the lowercase keywords outnumber the uppercase ones and the policy is Lower
C21_WitnessLower ==
    /\ ConsistentChecked
    /\ LowerCount(doc) > UpperCount(doc) /\ UpperCount(doc) >= 1
    /\ Len(ByRule(reported, "inconsistent_capitalisation")) >= 1

(***************************************************************************)
(* Vocabulary of the scenarios.                                            *)
(***************************************************************************)
S1_Input == Join(<<w_select, w_a, w_from, w_t>>)
S1_Fixed == Join(<<w_SELECT, w_a, w_FROM, w_t>>)
NoNameDisallowed == conf.lints.disallow_names.options = [names |-> <<>>, regexes |-> <<>>]
CapitalisationAt(policy) ==
    /\ NoNameDisallowed
    /\ LevelOf("inconsistent_capitalisation") = "Warn"
    /\ CapitalisationOptions.capitalisation_policy = policy
ScenarioS1 == doc = S1_Input /\ CapitalisationAt("Consistent")
MustBeUppercase(from, to) ==
    with_fix(Diagnostic("inconsistent_capitalisation", <<"Keywords must be ", "uppercase", ".">>,
                        "Warn", from, to),
             Fix_single("Fix keyword capitalisation",
                        TextEdit(from, to, to_ascii_uppercase(Slice(doc, from, to)))))
UppercaseExpected ==
    /\ AfterCheck => reported = <<MustBeUppercase(0, 6), MustBeUppercase(9, 13)>>
    /\ AfterFix => fixed = FixOk(S1_Fixed)

\* C22 as stated: for the input select a from t with the capitalisation
\* rule at level warn and policy Consistent, two diagnostics are emitted, on
\* select and on from, with the message "Keywords must be uppercase.", and
\* applying the fixes yields SELECT a FROM t.
C22_ScenarioS1 == ScenarioS1 => UppercaseExpected

\* C22 as amended: for that input and configuration the inferred policy is
\* Lower, since no keyword is uppercase and two are lowercase; no diagnostic
\* is emitted and applying the fixes returns the text unchanged.  The two
\* diagnostics and the text SELECT a FROM t are what policy Upper gives.
C22_ScenarioS1InfersLower ==
    /\ (ScenarioS1 /\ AfterCheck) =>
           /\ parsed.ok
           /\ resolve_policy("Consistent", [tree |-> parsed.tree]) = "Lower"
           /\ reported = <<>>
    /\ (ScenarioS1 /\ AfterFix) => fixed = FixOk(doc)
    /\ (doc = S1_Input /\ CapitalisationAt("Upper")) => UppercaseExpected

C22_Witness == ScenarioS1 /\ AfterFix /\ fixed.ok

(***************************************************************************)
(* Vocabulary of the explicit_union claims.                                *)
(***************************************************************************)
SupportedDialects ==
    {"Ansi", "Bigquery", "Clickhouse", "Databricks", "Mysql", "Redshift", "Snowflake", "Trino"}
UnionRuleRan ==
    /\ AfterCheck
    /\ parsed.ok
    /\ LevelOf("explicit_union") # "Allow"
SetOperatorNodes(t) == {n \in TreeNodes(t) : node_data(t, n).kind = "SetOperator"}
UnionChildren(t, n) ==
    {id \in ChildTokenIds(t) :
        /\ t.tokens[id + 1].parent = n
        /\ to_ascii_lowercase(token_text(t, id)) = w_union}
FirstUnionChild(t, n) ==
    CHOOSE id \in UnionChildren(t, n) : \A other \in UnionChildren(t, n) : id <= other
AlreadyExplicit(t, n) ==
    LET upper == to_ascii_uppercase(node_text(t, n)) IN
    contains(upper, w_ALL) \/ contains(upper, w_DISTINCT)
\* the explicit_union diagnostics whose range lies in the node's range
UnionReports(t, n) ==
    SelectSeq(ByRule(reported, "explicit_union"),
              LAMBDA d : node_start(t, n) <= d.range.start /\ d.range.end <= node_end(t, n))
HasNoUpperLetter(w) == \A i \in 1..Len(w) : ~IsUpperLetter(w[i])
UnionReport(t, id) ==
    [code |-> "explicit_union",
     message |-> "Use UNION DISTINCT or UNION ALL.",
     severity |-> LevelOf("explicit_union"),
     range |-> [start |-> token_start(t, id), end |-> token_end(t, id)],
     fix |-> <<[title |-> "Add DISTINCT to UNION",
                edits |-> <<[start |-> token_end(t, id), end |-> token_end(t, id),
                             replacement |-> IF HasNoUpperLetter(token_text(t, id))
                                             THEN sp_distinct ELSE sp_DISTINCT]>>]>>]

\* C23: under a supported dialect, for every SetOperator node the rule
\* emits exactly one diagnostic when the node has a direct child token equal
\* to "union" in any case and its uppercased text contains neither ALL nor
\* DISTINCT, and none otherwise; the diagnostic has code explicit_union, the
\* range of the union token, and a fix of one edit that inserts, at the
\* token's end, " distinct" when the token has no uppercase letter and
\* " DISTINCT" otherwise.
C23_ExplicitUnionReports ==
    (UnionRuleRan /\ conf.core.dialect \in SupportedDialects) =>
        \A n \in SetOperatorNodes(parsed.tree) :
            UnionReports(parsed.tree, n)
                = IF UnionChildren(parsed.tree, n) # {} /\ ~AlreadyExplicit(parsed.tree, n)
                  THEN <<UnionReport(parsed.tree, FirstUnionChild(parsed.tree, n))>>
                  ELSE <<>>

\* two set operators in one document, Union alone and union ALL: one
\* diagnostic, on the first, with the uppercase suffix
C23_Witness ==
    /\ UnionRuleRan
    /\ conf.core.dialect = "Trino"
    /\ Cardinality(SetOperatorNodes(parsed.tree)) = 2
    /\ Len(ByRule(reported, "explicit_union")) = 1
    /\ ByRule(reported, "explicit_union")[1].fix[1].edits[1].replacement = sp_DISTINCT

S3_Input == Join(<<w_select, w_1, w_union, w_select, w_2>>)
S3_InputUpper == Join(<<w_select, w_1, w_UNION, w_select, w_2>>)
ExplicitUnionOnly ==
    /\ conf.core.dialect = "Ansi"
    /\ NoNameDisallowed
    /\ LevelOf("explicit_union") = "Warn"
    /\ LevelOf("inconsistent_capitalisation") = "Allow"
ScenarioS3 == doc = S3_Input /\ ExplicitUnionOnly
\* the one diagnostic on the union token at bytes 9..14, inserting the suffix
UseExplicitUnion(suffix) ==
    with_fix(Diagnostic("explicit_union", "Use UNION DISTINCT or UNION ALL.", "Warn", 9, 14),
             Fix_single("Add DISTINCT to UNION", TextEdit(14, 14, suffix)))
S3_Outcome(suffix) ==
    /\ AfterCheck => reported = <<UseExplicitUnion(suffix)>>
    /\ AfterFix => fixed = FixOk(Slice(doc, 0, 14) \o suffix \o Slice(doc, 14, Len(doc)))

\* C24 as stated: for select 1 union select 2 under ANSI with explicit_union
\* at warn, one diagnostic is emitted on the union token, its fix inserts
\* " DISTINCT" at the end of the token, and fix_with_config returns
\* select 1 union DISTINCT select 2.
C24_ScenarioS3 == ScenarioS3 => S3_Outcome(sp_DISTINCT)

\* C24 as amended: the union token of that input has no uppercase letter,
\* so the fix inserts " distinct" and fix_with_config returns
\* select 1 union distinct select 2; " DISTINCT" is inserted for the input
\* select 1 UNION select 2.
C24_ScenarioS3InsertsLowercase ==
    /\ ScenarioS3 => S3_Outcome(sp_distinct)
    /\ (doc = S3_InputUpper /\ ExplicitUnionOnly) => S3_Outcome(sp_DISTINCT)

C24_Witness ==
    /\ ScenarioS3
    /\ AfterFix
    /\ fixed = FixOk(Join(<<w_select, w_1, w_union, w_distinct, w_select, w_2>>))

OtherDialects == {"Athena", "Duckdb", "Postgres", "Sparksql", "Sqlite", "Tsql"}
UnionRuleUnsupported ==
    /\ parsed.ok
    /\ LevelOf("explicit_union") # "Allow"
    /\ conf.core.dialect \in OtherDialects

\* C25: under each of the six dialects outside the supported set the rule
\* emits no diagnostic, whatever the set operators of the document, and so
\* contributes no edit: the fixed text has no inserted suffix, and is the
\* document itself when no other rule has a fix.  Scenario S4 is the case of
\* select 1 union select 2 under Postgres: no diagnostic at all.
C25_UnsupportedDialectIsNoOp ==
    /\ SupportedDialects \cup OtherDialects = AllDialects
    /\ (AfterCheck /\ UnionRuleUnsupported) =>
           /\ ByRule(reported, "explicit_union") = <<>>
           /\ \A k \in DOMAIN FixEdits(reported) :
                  FixEdits(reported)[k].start # FixEdits(reported)[k].end
           /\ (LevelOf("inconsistent_capitalisation") = "Allow" /\ NoNameDisallowed)
                  => reported = <<>>
    /\ (AfterFix /\ UnionRuleUnsupported) =>
           /\ fixed.ok
           /\ Len(fixed.val) = Len(doc)
           /\ LevelOf("inconsistent_capitalisation") = "Allow" => fixed.val = doc

\* scenario S4, fixed: the dialect is Postgres, the rule is enabled and the
\* document has a bare union
C25_Witness ==
    /\ AfterFix
    /\ UnionRuleUnsupported
    /\ conf.core.dialect = "Postgres"
    /\ doc = S3_Input
    /\ LevelOf("inconsistent_capitalisation") = "Allow"
    /\ NoNameDisallowed
    /\ \E k \in DOMAIN invoked : invoked[k].lint = "explicit_union"

(***************************************************************************)
(* Vocabulary of the disallow_names claims.                                *)
(***************************************************************************)
NameOptions == conf.lints.disallow_names.options
NamesRuleRan ==
    /\ AfterCheck
    /\ parsed.ok
    /\ LevelOf("disallow_names") # "Allow"
\* the tokens the walk visits, with their byte ranges: every token of the
\* source that is not whitespace
VisitedSpans(source) == SelectSeq(lex_from(source, 0), LAMBDA s : ~s.tok.is_whitespace)
QuotePairs == {<<34, 34>>, <<96, 96>>, <<91, 93>>}
Candidate(raw) ==
    IF Len(raw) >= 2 /\ <<raw[1], raw[Len(raw)]>> \in QuotePairs
    THEN SubSeq(raw, 2, Len(raw) - 1)
    ELSE raw
IsDisallowed(candidate) ==
    /\ candidate # <<>>
    /\ \/ \E k \in DOMAIN NameOptions.names :
              to_ascii_lowercase(NameOptions.names[k]) = to_ascii_lowercase(candidate)
       \/ \E k \in DOMAIN NameOptions.regexes : contains(candidate, NameOptions.regexes[k])
DisallowedSpans(source) ==
    SelectSeq(VisitedSpans(source), LAMBDA s : IsDisallowed(Candidate(s.tok.raw)))
NameReport(span) ==
    [code |-> "disallow_names",
     message |-> <<"Disallowed name: ", Candidate(span.tok.raw), ".">>,
     severity |-> LevelOf("disallow_names"),
     range |-> [start |-> span.start, end |-> span.end],
     fix |-> <<>>]

\* C26: the diagnostics of disallow_names are, in source order, one for each
\* visited token whose candidate (the token text without one matching pair
\* of surrounding quotes) is not empty and equals a configured name in any
\* case or matches a configured pattern, and none for any other token; each
\* has the message "Disallowed name: <candidate>.", the range of the whole
\* token, the configured severity and no fix.
C26_DisallowNamesReports ==
    NamesRuleRan =>
        ByRule(reported, "disallow_names")
            = [k \in 1..Len(DisallowedSpans(doc)) |-> NameReport(DisallowedSpans(doc)[k])]

\* scenario S2: the quoted identifier is reported, with its quotes in the
\* range and without them in the message
C26_Witness ==
    /\ NamesRuleRan
    /\ doc = Join(<<w_select, w_quoted_forbidden, w_from, w_t>>)
    /\ NameOptions = [names |-> <<w_forbidden>>, regexes |-> <<>>]
    /\ LevelOf("inconsistent_capitalisation") = "Allow"
    /\ reported = <<Diagnostic("disallow_names", <<"Disallowed name: ", w_forbidden, ".">>,
                                "Warn", 7, 18)>>

(***************************************************************************)
(* Vocabulary of the claims about byte ranges.                             *)
(***************************************************************************)
OnCodePointBoundary(source, offset) ==
    \/ offset = 0
    \/ offset = Len(source)
    \/ offset < Len(source) /\ source[offset + 1] \notin 128..191
WellPlaced(source, range) ==
    /\ 0 <= range.start
    /\ range.start <= range.end
    /\ range.end <= Len(source)
    /\ OnCodePointBoundary(source, range.start)
    /\ OnCodePointBoundary(source, range.end)

\* C27: when the source parses without error, the range of every diagnostic
\* that check_with_config returns, and the range of every edit of every fix
\* attached to one, satisfies 0 <= start <= end <= source.len() with both
\* ends on UTF-8 code-point boundaries.
C27_RangesAreWellPlaced ==
    (AfterCheck /\ parsed.ok) =>
        /\ \A k \in DOMAIN reported : WellPlaced(doc, reported[k].range)
        /\ \A k \in DOMAIN FixEdits(reported) :
               WellPlaced(doc, [start |-> FixEdits(reported)[k].start,
                                end |-> FixEdits(reported)[k].end])

\* a word ending in a two-byte character is reported, and a keyword behind
\* it is reported with a fix
C27_Witness ==
    /\ AfterCheck
    /\ parsed.ok
    /\ contains(doc, w_t_e_acute)
    /\ \E k \in DOMAIN reported :
           /\ reported[k].code = "disallow_names"
           /\ Slice(doc, reported[k].range.start, reported[k].range.end) = w_t_e_acute
    /\ \E k \in DOMAIN FixEdits(reported) : FixEdits(reported)[k].start > 8

(***************************************************************************)
(* Vocabulary of the claims about the order of arrival.  A position is an  *)
(* index of the log of events the parser has handed over.                  *)
(***************************************************************************)
Log == fed.log
IsTriviaAt(p) == Log[p].type = "token" /\ Log[p].token.is_whitespace
IsTokenAt(p) == Log[p].type = "token" /\ ~Log[p].token.is_whitespace
IsSignificantAt(p) == IsTokenAt(p) /\ ~Log[p].token.is_meta
Least(S) == CHOOSE x \in S : \A y \in S : x <= y
Greatest(S) == CHOOSE x \in S : \A y \in S : y <= x
\* the token of the tree that the non-trivia token arriving at p became: the
\* j-th non-trivia token of the tokens vector for the j-th such arrival
EmittedAs(t, p) ==
    CHOOSE id \in EmittedTokens(t) :
        Cardinality({i \in EmittedTokens(t) : i <= id})
            = Cardinality({q \in 1..p : IsTokenAt(q)})
TriviaBetween(p, q) == Cardinality({r \in (p + 1)..(q - 1) : IsTriviaAt(r)})
NextSignificantAt(p) ==
    Least({q \in (p + 1)..Len(Log) : IsSignificantAt(q)} \cup {Len(Log) + 1})
\* the first event after p that is not a trivia token: it flushes the token
\* that arrived at p
FlushedAt(p) == Least({q \in (p + 1)..Len(Log) : ~IsTriviaAt(q)} \cup {Len(Log) + 1})
PreviousTokenAt(p) == Greatest({q \in 1..(p - 1) : IsTokenAt(q)} \cup {0})
\* the position after which arriving trivia is collected as leading trivia of
\* the token arriving at p
LeadingFrom(p) ==
    IF PreviousTokenAt(p) = 0 THEN 0
    ELSE IF Log[PreviousTokenAt(p)].token.is_meta THEN PreviousTokenAt(p)
    ELSE FlushedAt(PreviousTokenAt(p))
ChildPositions(t, id) ==
    {k \in (node_data(t, t.tokens[id + 1].parent).children.start + 1)
            ..node_data(t, t.tokens[id + 1].parent).children.end :
        t.node_children[k] = TokenRef(id)}

\* every non-trivia token that arrived is in the tree exactly once, in the
\* order of arrival, as a child of the node that was open when it arrived
EmittedOnceInOrder(t) ==
    /\ Cardinality(EmittedTokens(t)) = Cardinality({p \in DOMAIN Log : IsTokenAt(p)})
    /\ \A p \in {q \in DOMAIN Log : IsTokenAt(q)} :
           /\ token_kind(t, EmittedAs(t, p)) = Log[p].token.kind
           /\ token_end(t, EmittedAs(t, p)) - token_start(t, EmittedAs(t, p))
                  = Len(Log[p].token.raw)
           /\ t.tokens[EmittedAs(t, p) + 1].parent = Log[p].top
           /\ Cardinality(ChildPositions(t, EmittedAs(t, p))) = 1
           /\ Cardinality({k \in DOMAIN t.node_children :
                              t.node_children[k] = TokenRef(EmittedAs(t, p))}) = 1

\* C29 as stated: every significant token that arrived is emitted exactly
\* once, in arrival order, into the node that was open when it arrived, and
\* every trivia token that arrives after a significant token and before the
\* next significant token is trailing trivia of the former.
C29_TriviaFollowsPrecedingToken ==
    TreeReturned =>
        /\ EmittedOnceInOrder(built.tree)
        /\ \A p \in {q \in DOMAIN Log :
                       IsSignificantAt(q) /\ NextSignificantAt(q) <= Len(Log)} :
               /\ Len(trailing_trivia(built.tree, EmittedAs(built.tree, p)))
                      = TriviaBetween(p, NextSignificantAt(p))
               /\ TriviaBetween(p, NextSignificantAt(p)) > 0 =>
                      Len(leading_trivia(built.tree,
                                         EmittedAs(built.tree, NextSignificantAt(p)))) = 0

\* C29 as amended: every significant token that arrived is emitted exactly
\* once, in arrival order, into the node that was open when it arrived; a
\* trivia token that arrives while that token is pending, before any
\* EnterNode, ExitNode or further token, is its trailing trivia; a trivia
\* token that arrives after such an event has flushed the pending token is
\* leading trivia of the next token to arrive.
C29_TriviaFollowsPendingToken ==
    TreeReturned =>
        /\ EmittedOnceInOrder(built.tree)
        /\ \A p \in {q \in DOMAIN Log : IsSignificantAt(q)} :
               Len(trailing_trivia(built.tree, EmittedAs(built.tree, p)))
                   = TriviaBetween(p, FlushedAt(p))
        /\ \A p \in {q \in DOMAIN Log : IsTokenAt(q)} :
               Len(leading_trivia(built.tree, EmittedAs(built.tree, p)))
                   = TriviaBetween(LeadingFrom(p), p)

\* a token, a node entered, whitespace and a second token: the whitespace is
\* leading trivia of the second token, in the inner node
C29_Witness ==
    /\ TreeReturned
    /\ \E p \in DOMAIN Log :
           /\ IsSignificantAt(p)
           /\ PreviousTokenAt(p) # 0
           /\ IsSignificantAt(PreviousTokenAt(p))
           /\ Log[p].top # Log[PreviousTokenAt(p)].top
           /\ Len(leading_trivia(built.tree, EmittedAs(built.tree, p))) = 1
           /\ Len(trailing_trivia(built.tree, EmittedAs(built.tree, PreviousTokenAt(p)))) = 0

TokenSpan(t, n) == node_data(t, n).first_token..node_data(t, n).last_token
IsDescendant(t, d, n) == d # n /\ NodeIsAncestorOrSelf(t, n, d)
Siblings(t, a, b) ==
    /\ a # b
    /\ node_data(t, a).parent # NoParent
    /\ node_data(t, a).parent = node_data(t, b).parent
ChildrenRange(t, n) == (node_data(t, n).children.start + 1)..node_data(t, n).children.end
ListedUnder(t, el) == {n \in TreeNodes(t) : \E k \in ChildrenRange(t, n) : t.node_children[k] = el}
ListedAt(t, el) == {k \in 1..Len(t.node_children) : t.node_children[k] = el}
NonRootNodes(t) == {n \in TreeNodes(t) : node_data(t, n).parent # NoParent}

\* the trees that finish has produced: the one handed back after the parser
\* drove the builder, and the one check parsed
FinishedTrees ==
    (IF TreeReturned THEN {built.tree} ELSE {})
        \cup (IF parsed # NoResult /\ parsed.ok THEN {parsed.tree} ELSE {})

WellNested(t) ==
    /\ \A n \in TreeNodes(t) :
           /\ node_start(t, n) <= node_end(t, n)
           /\ \A d \in TreeNodes(t) :
                  IsDescendant(t, d, n) => TokenSpan(t, d) \subseteq TokenSpan(t, n)
    /\ \A a, b \in TreeNodes(t) :
           Siblings(t, a, b) => TokenSpan(t, a) \cap TokenSpan(t, b) = {}

ListedByParent(t) ==
    /\ \A n \in NonRootNodes(t) :
           /\ ListedUnder(t, NodeRef(n)) = {node_data(t, n).parent}
           /\ Cardinality(ListedAt(t, NodeRef(n))) = 1
    /\ \A id \in ChildTokenIds(t) :
           /\ ListedUnder(t, TokenRef(id)) = {t.tokens[id + 1].parent}
           /\ Cardinality(ListedAt(t, TokenRef(id))) = 1

\* C30: in every finished tree, for every node n, the first token of n starts
\* no later than its last token ends, the token range of every descendant node
\* lies within the token range of n, sibling subtrees have disjoint token
\* ranges, and every non-root node and every child token is listed once, in
\* the children range of the node its parent field names and of no other.
C30_TreeIsWellNested ==
    \A t \in FinishedTrees : WellNested(t) /\ ListedByParent(t)

\* a finished tree whose root has two statements side by side, the second
\* of them with a node nested inside it
C30_Witness ==
    \E t \in FinishedTrees :
        \E a, b, d \in TreeNodes(t) :
            /\ Siblings(t, a, b)
            /\ node_data(t, d).parent = b
            /\ node_data(t, b).first_token > node_data(t, a).last_token

IsSignificantKind(kind) == ~IsTriviaKind(kind) /\ ~IsMetaKind(kind)
SignificantIn(t, n) == {id \in TokenSpan(t, n) : IsSignificantKind(token_kind(t, id))}
\* the nodes of the sink that ExitNode has closed
ClosedNodes(b) ==
    {n \in 0..(Len(b.nodes) - 1) : \A f \in 1..Len(b.opened) : b.opened[f].id # n}

\* C31: ExitNode on a frame that received no significant token, directly or
\* through a closed child, makes the builder fail: no node is recorded with an
\* empty or default token range, and no finished tree has a node without a
\* significant token.
C31_EmptyFrameIsProtocolError ==
    /\ (pc = "parsing" /\ sink.panic = "none") =>
           \A n \in ClosedNodes(sink) : SignificantIn(sink, n) # {}
    /\ TreeReturned =>
           \A n \in TreeNodes(built.tree) : SignificantIn(built.tree, n) # {}

\* finish has been called on the builder that sink holds; built is its outcome
FinishCalled == pc \in {"parsed", "asked"}
OpenFrames == Len(sink.opened)
PendingRun == IF sink.pending = <<>> THEN 0 ELSE Len(sink.leading) + 1 + Len(sink.trailing)
\* the pending token of the builder, if any, is in the tree with its trivia
PendingFlushed ==
    /\ Len(built.tree.tokens) = Len(sink.tokens) + PendingRun
    /\ sink.pending # <<>> =>
           /\ token_kind(built.tree, Len(sink.tokens) + Len(sink.leading))
                  = sink.pending[1].kind
           /\ TokenRef(Len(sink.tokens) + Len(sink.leading)) = Last(built.tree.node_children)
\* the one open frame is closed: its children are the end of node_children
RootClosed ==
    LET frame == sink.opened[1]
        flushed == IF sink.pending = <<>> THEN 0 ELSE 1
    IN /\ node_data(built.tree, frame.id).children.end = Len(built.tree.node_children)
       /\ node_data(built.tree, frame.id).children.end
              - node_data(built.tree, frame.id).children.start
              = Len(frame.children) + flushed
       /\ node_data(built.tree, frame.id).last_token = Len(built.tree.tokens) - 1

\* C32: finish first flushes any pending token, then succeeds only when the
\* frame stack holds exactly one open frame, the root, which it closes; with
\* more than one open frame it fails and hands out no tree.
C32_FinishNeedsOneOpenFrame ==
    FinishCalled =>
        /\ built.ok => (OpenFrames = 1 /\ PendingFlushed /\ RootClosed)
        /\ OpenFrames > 1 => (~built.ok /\ built.tree = NoTree)

\* C32 as amended: finish first flushes any pending token, then succeeds only
\* when the frame stack holds one open frame, the root, which it closes, or
\* no open frame and the root already closed by ExitNode; with more than one
\* open frame it fails and hands out no tree.
C32_FinishNeedsAtMostOneOpenFrame ==
    FinishCalled =>
        /\ built.ok =>
               /\ OpenFrames <= 1
               /\ PendingFlushed
               /\ OpenFrames = 1 => RootClosed
               /\ OpenFrames = 0 => (sink.nodes # <<>> /\ built.tree.nodes = sink.nodes)
        /\ OpenFrames > 1 => (~built.ok /\ built.tree = NoTree)

\* finish succeeded on a builder with a pending token and the root open
C32_Witness ==
    /\ FinishCalled
    /\ built.ok
    /\ OpenFrames = 1
    /\ sink.pending # <<>>
    /\ sink.trailing # <<>>

\* finish succeeded on a builder whose root ExitNode had closed
C32_WitnessRootClosed == FinishCalled /\ built.ok /\ OpenFrames = 0

\* finish failed on a builder with two frames open
C32_WitnessUnbalanced == FinishCalled /\ OpenFrames = 2 /\ ~built.ok

Dropped == pc = "dropped"

\* C33: dropping a TreeBuilder that was created and neither finished nor
\* abandoned panics unless a panic is already in flight, whatever the number
\* of frames open at that moment.
C33_DropAssertsFinish ==
    Dropped => (asked.answer # "none" <=> ~asked.panicking)

TooLong(trivia) == Len(trivia) > u16_MAX
FitsU16 == "trivia_len must fit into u16"
\* the step emits a token of the builder with its trivia: an event that
\* flushes the pending token, a meta token, which takes the leading run with
\* it, or finish
EmitsPending == sink.panic = "none" /\ sink.pending # <<>> /\ pc' \in {"parsing", "parsed"}
EmitsMeta ==
    /\ sink.panic = "none"
    /\ pc' = "parsing"
    /\ Len(fed'.log) > Len(fed.log)
    /\ Last(fed'.log).type = "token"
    /\ sink.pending = <<>>
Failed(b) == b.panic = FitsU16
StoredTriviaLens(b) ==
    {b.tokens[k].attached_trivia.trivia_len : k \in 1..Len(b.tokens)}

\* C34: the trivia run length stored on a token is at most 2^16 - 1 = 65535:
\* emitting a token with more than 65535 leading trivia tokens, or more than
\* 65535 trailing trivia tokens, is a fatal failure of the builder, never a
\* truncated or wrapped trivia_len.
C34_LongTriviaRunIsFatal ==
    [][/\ (EmitsPending /\ (TooLong(sink.leading) \/ TooLong(sink.trailing))) =>
              IF pc' = "parsing" THEN Failed(sink')
              ELSE ~built'.ok /\ built'.items[1].message = FitsU16
       /\ (EmitsMeta /\ TooLong(sink.leading)) => Failed(sink')
       /\ \A stored \in StoredTriviaLens(sink') : stored <= u16_MAX
       /\ Failed(sink') =>
              (TooLong(sink.leading) \/ TooLong(sink.trailing) \/ Failed(sink))]_vars

\* the builder failed on the word a with a trailing run of 65536 tokens
C34_Witness ==
    /\ pc = "parsing"
    /\ Failed(sink)
    /\ sink.text[1] = 97
    /\ Len(sink.text) = u16_MAX + 2

\* the builder failed on a leading run of 65536 tokens
C34_WitnessLeading ==
    /\ pc = "parsing"
    /\ Failed(sink)
    /\ sink.text[u16_MAX + 1] = 32
    /\ Len(sink.text) <= u16_MAX + 2

\* a token was emitted with runs of two leading and two trailing tokens
C34_WitnessShortRuns ==
    /\ sink.panic = "none"
    /\ 2 \in StoredTriviaLens(sink)
    /\ Len(sink.tokens) = 6

FixesOf(code) == SelectSeq(reported, LAMBDA d : d.code = code /\ d.fix # <<>>)
CollectedEdits == FixEdits(reported)
\* an insert of explicit_union at the end of the token that a replacement of
\* the capitalisation rule rewrites
BothOnOneToken ==
    \E i, j \in 1..Len(CollectedEdits) :
        /\ CollectedEdits[i].start = CollectedEdits[i].end
        /\ CollectedEdits[j].start < CollectedEdits[j].end
        /\ CollectedEdits[j].end = CollectedEdits[i].start
\* an insert of explicit_union where the replacement of the next token starts
InsertMeetsNextToken ==
    \E i, j \in 1..Len(CollectedEdits) :
        /\ CollectedEdits[i].start = CollectedEdits[i].end
        /\ CollectedEdits[j].start < CollectedEdits[j].end
        /\ CollectedEdits[j].start = CollectedEdits[i].start

\* C35: for every tree and every config, apply_edits accepts the edits that
\* fix_with_config collects from the built-in rules, in diagnostic order:
\* fix_with_config never returns FixError::Apply, also when both rules fire on
\* the same union token or on adjacent tokens with no trivia between them.
C35_CollectedFixesApply ==
    AfterFix => (fixed.err # "Apply" /\ (parsed.ok => fixed.ok))

\* both rules fired on one union token, the next keyword follows it with no
\* trivia between, and the fix was applied
C35_Witness ==
    /\ AfterFix
    /\ fixed.ok
    /\ BothOnOneToken
    /\ InsertMeetsNextToken
    /\ Len(FixesOf("explicit_union")) = 1
    /\ Len(FixesOf("inconsistent_capitalisation")) >= 3

WalkOn == pc \in {"walking", "panicked"}
WalkLog == asked.log
WithTokens == asked.query = "preorder_with_tokens"
WalkEnded == asked.nones > 0
SkippedNodes == asked.skipped \ {NoParent}
SubtreeNodes(t, n) == {x \in TreeNodes(t) : NodeIsAncestorOrSelf(t, n, x)}
SubtreeTokens(t, n) ==
    {id \in ChildTokenIds(t) : NodeIsAncestorOrSelf(t, n, t.tokens[id + 1].parent)}
\* the node an event of the walk belongs to
EventNode(t, e) == IF e.type = "Token" THEN t.tokens[e.id + 1].parent ELSE e.id
Enters(n) == {k \in DOMAIN WalkLog : WalkLog[k] = WalkEnterNode(n)}
Leaves(n) == {k \in DOMAIN WalkLog : WalkLog[k] = WalkLeaveNode(n)}
TokenEventsOf(id) == {k \in DOMAIN WalkLog : WalkLog[k] = WalkToken(id)}
\* n was entered once and left once, later, with nothing but events of its
\* subtree in between
Paired(t, n) ==
    /\ Cardinality(Enters(n)) = 1
    /\ Cardinality(Leaves(n)) = 1
    /\ \A e \in Enters(n), l \in Leaves(n) :
           /\ e < l
           /\ \A k \in e..l : EventNode(t, WalkLog[k]) \in SubtreeNodes(t, n)
WalkLength(t, n) ==
    2 * Cardinality(SubtreeNodes(t, n))
        + (IF WithTokens THEN Cardinality(SubtreeTokens(t, n)) ELSE 0)

\* C36: a preorder_with_tokens walk from any node terminates: without
\* skip_subtree it yields EnterNode(n) and later LeaveNode(n) exactly once for
\* every node n of the subtree, properly nested, ends right after
\* LeaveNode(start) with an empty stack, and returns None on every later call.
C36_WalkTerminates ==
    (pc = "walking" /\ asked.skipped = {}) =>
        /\ Len(WalkLog) <= WalkLength(built.tree, asked.node)
        /\ WalkEnded =>
               /\ Len(WalkLog) = WalkLength(built.tree, asked.node)
               /\ asked.it.stack = <<>>
               /\ Last(WalkLog) = WalkLeaveNode(asked.node)
               /\ \A n \in SubtreeNodes(built.tree, asked.node) : Paired(built.tree, n)
               /\ \A k \in DOMAIN WalkLog :
                      EventNode(built.tree, WalkLog[k])
                          \in SubtreeNodes(built.tree, asked.node)
               /\ WithTokens =>
                      \A id \in SubtreeTokens(built.tree, asked.node) :
                          Cardinality(TokenEventsOf(id)) = 1

\* a walk with tokens over a subtree of four or more nodes has ended, and the
\* caller has asked again MaxLaterCalls times
C36_Witness ==
    /\ pc = "walking"
    /\ asked.skipped = {}
    /\ WithTokens
    /\ asked.nones = MaxLaterCalls + 1
    /\ Cardinality(SubtreeNodes(built.tree, asked.node)) >= 4
    /\ Cardinality(SubtreeTokens(built.tree, asked.node)) >= 4

\* the elements that follow node n in its parent's children
RECURSIVE After(_, _)
After(children, el) ==
    IF children = <<>> THEN <<>>
    ELSE IF Head(children) = el THEN Tail(children)
    ELSE After(Tail(children), el)
FollowingSiblings(t, n) ==
    LET following == After(children_with_tokens(t, node_data(t, n).parent), NodeRef(n)) IN
    IF WithTokens THEN following ELSE SelectSeq(following, LAMBDA el : el.is_node)
\* what the walk yields after a skipped n: its next sibling, or the Leave of
\* its parent; nothing when n is the node the walk started from
AfterSkipped(t, n) ==
    IF n = asked.node THEN <<>>
    ELSE IF FollowingSiblings(t, n) = <<>> THEN <<WalkLeaveNode(node_data(t, n).parent)>>
    ELSE IF Head(FollowingSiblings(t, n)).is_node
         THEN <<WalkEnterNode(Head(FollowingSiblings(t, n)).id)>>
    ELSE <<WalkToken(Head(FollowingSiblings(t, n)).id)>>
UnderSkipped(t, x) == \E n \in SkippedNodes : NodeIsAncestorOrSelf(t, n, x)

\* C37: skip_subtree called right after the walk yielded Enter(n) makes the
\* walk yield no descendant node or token of n and no Leave(n), and continue
\* with n's next sibling or the parent's Leave; the Enter/Leave pairing of
\* every other node is unaffected; skip_subtree on an exhausted walk fails
\* its assertion.
C37_SkipSubtreeSkips ==
    WalkOn =>
        /\ \A n \in SkippedNodes :
               /\ Cardinality(Enters(n)) = 1
               /\ Leaves(n) = {}
               /\ \A k \in DOMAIN WalkLog :
                      WalkLog[k] # WalkEnterNode(n) =>
                          EventNode(built.tree, WalkLog[k])
                              \notin SubtreeNodes(built.tree, n)
               /\ \A e \in Enters(n) :
                      /\ Len(WalkLog) > e =>
                             <<WalkLog[e + 1]>> = AfterSkipped(built.tree, n)
                      /\ (WalkEnded /\ AfterSkipped(built.tree, n) # <<>>) => Len(WalkLog) > e
        /\ WalkEnded =>
               \A n \in SubtreeNodes(built.tree, asked.node) :
                   ~UnderSkipped(built.tree, n) => Paired(built.tree, n)
        /\ NoParent \in asked.skipped <=> pc = "panicked"

\* a walk has ended after the caller skipped a node with descendants that
\* has a following sibling, and a skip_subtree on the ended walk has failed
C37_Witness ==
    /\ pc = "panicked"
    /\ \E n \in SkippedNodes :
           /\ Cardinality(SubtreeNodes(built.tree, n)) >= 2
           /\ n # asked.node
           /\ FollowingSiblings(built.tree, n) # <<>>
    /\ Len(WalkLog) >= 6

\* C38: for every node n and every offset, each token that
\* n.token_at_offset(offset) returns, as Single or as either side of Between,
\* has an index within n's token range [n.first_token, n.last_token] and a
\* byte range that touches the offset (start <= offset <= end); the sentinel
\* token at index 0 is never returned.
C38_TokenAtOffsetStaysInNode ==
    AskedTokenAtOffset =>
        \A k \in DOMAIN asked.answer.at.tokens :
            LET token == asked.answer.at.tokens[k] IN
            /\ token \in TokenSpan(built.tree, asked.node)
            /\ token_start(built.tree, token) <= asked.range.start
            /\ asked.range.start <= token_end(built.tree, token)
            /\ token # 0

FirstChildToken(t, n) == Least(SubtreeTokens(t, n))
LastChildToken(t, n) == Greatest(SubtreeTokens(t, n))

\* C39: for every node n of a finished tree, n.first_token() and
\* n.last_token() are non-trivia tokens in the children list of n or of one of
\* its descendants, so n.text_range() starts at the start of n's first
\* significant token and ends at the end of its last significant token.
C39_NodeRangeIsSignificant ==
    TreeReturned =>
        \A n \in TreeNodes(built.tree) :
            /\ node_data(built.tree, n).first_token = FirstChildToken(built.tree, n)
            /\ node_data(built.tree, n).last_token = LastChildToken(built.tree, n)
            /\ ~IsTriviaKind(token_kind(built.tree, node_data(built.tree, n).first_token))
            /\ ~IsTriviaKind(token_kind(built.tree, node_data(built.tree, n).last_token))
            /\ node_text_range(built.tree, n)
                   = [start |-> token_start(built.tree, FirstChildToken(built.tree, n)),
                      end |-> token_end(built.tree, LastChildToken(built.tree, n))]

\* C39 as amended: n.first_token() is the first token of the leading trivia
\* of the first token in the children lists of n and its descendants, or that
\* token itself when it has no leading trivia, and n.last_token() is the last
\* token of the trailing trivia of the last such token, or that token itself;
\* n.text_range() runs from the start of the one's leading trivia to the end
\* of the other's trailing trivia.
C39_NodeRangeIncludesTrivia ==
    TreeReturned =>
        \A n \in TreeNodes(built.tree) :
            /\ node_data(built.tree, n).first_token
                   = FirstChildToken(built.tree, n)
                         - Len(leading_trivia(built.tree, FirstChildToken(built.tree, n)))
            /\ node_data(built.tree, n).last_token
                   = LastChildToken(built.tree, n)
                         + Len(trailing_trivia(built.tree, LastChildToken(built.tree, n)))
            /\ node_text_range(built.tree, n)
                   = [start |-> text_range_including_trivia(
                                    built.tree, FirstChildToken(built.tree, n)).start,
                      end |-> text_range_including_trivia(
                                  built.tree, LastChildToken(built.tree, n)).end]

\* a finished tree with an inner node whose only token has whitespace before
\* and after it: the node's first and last tokens are the whitespace
C39_Witness ==
    /\ TreeReturned
    /\ \E n \in NonRootNodes(built.tree) :
           /\ IsTriviaKind(token_kind(built.tree, node_data(built.tree, n).first_token))
           /\ IsTriviaKind(token_kind(built.tree, node_data(built.tree, n).last_token))
           /\ Cardinality(TokenSpan(built.tree, n)) = 3

Served == pc = "serving" /\ asked.handlers # <<>>
AllCompleted == \A h \in DOMAIN asked.handlers : asked.handlers[h].at = "done"
LastNotification == asked.handlers[Len(asked.handlers)].note
AgreesWith(note) ==
    IF note.method = "did_close"
    THEN asked.documents = <<>> /\ asked.published = <<<<>>>>
    ELSE note.text # <<>> =>
             /\ asked.documents = note.text
             /\ asked.published = <<lsp_diagnostics(note.text[1])>>

\* C40: for any interleaving of did_open, did_change, did_save and did_close
\* handlers on one URI, once all handlers have completed the document store
\* and the published diagnostics agree with the last notification received:
\* after did_close the store has no entry and the last published diagnostics
\* are empty; otherwise the store holds the notification's text and the last
\* published diagnostics are those computed from it.  (A did_change without
\* content changes and a did_save without a text carry no text, and nothing
\* is required after them.)
C40_LastNotificationWins == Served /\ AllCompleted => AgreesWith(LastNotification)

====
